---- MODULE Spec2Model ----
(***************************************************************************)
(* Model of iCal-library (package ical_library): the recurrence expansion  *)
(* of a component, the Timeline that merges the expansions of a            *)
(* VCalendar's children, and the line parser that builds the component     *)
(* tree.                                                                   *)
(*                                                                         *)
(* Time is modelled as integers: every Date/DateTime is an instant on one  *)
(* UTC axis, a Duration is a difference of instants.  An RRULE is modelled *)
(* by what dateutil.rrule yields for FREQ/INTERVAL/COUNT/UNTIL: the        *)
(* arithmetic progression dtstart, dtstart+INTERVAL, ... (dtstart first).  *)
(***************************************************************************)
EXTENDS Integers, Sequences, FiniteSets, TLC

VARIABLES
    e_comp,      \* expansion: the component expand_component_in_range is called on
    e_range,     \* expansion: the return_range argument
    e_ste,       \* expansion: the caller's starts_to_exclude list object
    e_out,       \* expansion: the timespans the generator yielded
    e_status,    \* expansion: "new" | "ok" | the exception raised
    children,    \* timeline: v_calendar.children, in order
    tl_range,    \* timeline: Timespan(start_date, end_date)
    heap,        \* timeline: the heap of iterate(), as a sequence
    yielded,     \* timeline: what iterate() has yielded so far, in order
    tl_status,   \* timeline: "new" | "iterating" | "done" | the exception raised
    tl_setter,   \* timeline: "none" | the exception the last date setter raised
    p_raw,       \* parser: the raw_text given to parse_lines_into_calendar
    p_result,    \* parser: the VCalendar it returned, or the exception it raised
    p_comp,      \* parser: the component whose original_ical_text was read
    p_text,      \* parser: that original_ical_text
    p_status,    \* parser: "new" | "parsed" | "text"
    pp_input,    \* property: the name, parameters and value of the line
    pp_prop,     \* property: the Property parse_property returned, or the exception
    pp_got,      \* property: the key asked for and what get_property_parameter returned
    pp_status,   \* property: "new" | "parsed" | "got"
    ts_self,     \* timespan: the Timespan intersects is called on
    ts_other,    \* timespan: the other Timespan
    ts_result,   \* timespan: what intersects returned
    ts_status,   \* timespan: "new" | "done"
    tz_standardc, \* timezone: the STANDARD observance of the VTimeZone
    tz_daylightc, \* timezone: the DAYLIGHT observance of the VTimeZone
    tz_dt,       \* timezone: the naive datetime to convert
    tz_result,   \* timezone: what convert_naive_datetime_to_aware returned
    tz_status,   \* timezone: "new" | "done" | the name of the exception raised
    tr_comps,    \* tree: the Component objects constructed so far
    tr_props,    \* tree: the Property objects constructed so far
    tr_context,  \* tree: the class attributes of ComponentContext
    tr_with,     \* tree: the components whose with-blocks are open, innermost last
    tr_last,     \* tree: the last operation and the exception it raised
    tr_calls,    \* tree: calls made on existing objects (add_child, set_property, as_parent, prodid and version setters)
    tr_parent_setter, \* tree: whether ICalBaseClass.parent can be assigned to
    it_rrule,    \* rrule loop: the RRULE of the component
    it_start,    \* rrule loop: first_event_start
    it_dur,      \* rrule loop: first_event_duration
    it_range,    \* rrule loop: return_range
    it_dt,       \* rrule loop: the instance dateutil produces next
    it_k,        \* rrule loop: its position in the sequence, from 1
    it_out,      \* rrule loop: the starts _yield_rrule_list yielded so far
    it_status,   \* rrule loop: "new" | "running" | "break" | "exhausted" | "ValueError"
    rp_comp,     \* repeat: the component expanded twice
    rp_range,    \* repeat: the range of both calls
    rp_first,    \* repeat: the generator the first call returned
    rp_second,   \* repeat: the generator the second call returned
    rp_lists,    \* repeat: the list objects of the caller, as they are now
    lo_standardc, \* localise: the STANDARD observance of the VTimeZone
    lo_daylightc, \* localise: the DAYLIGHT observance of the VTimeZone
    lo_dt,       \* localise: the datetime passed to the first call, naive or aware
    lo_first,    \* localise: what the first call returned or raised
    lo_second,   \* localise: what the call on the first result returned or raised
    lo_status,   \* localise: "new" | "once" | "twice"
    mc_comp,     \* memo: the component whose properties are read
    mc_runs,     \* memo: per property, how often its underlying function has run
    mc_reads,    \* memo: the number of reads and calls so far
    mc_last,     \* memo: the last property read, or call made, and what it returned
    mc_storage,  \* memo: __storage_of_results of the VTimeZone, as a set of items
    mc_tz_runs,  \* memo: per horizon, how often the transition table was expanded
    ob_standardc, \* observances: the STANDARD observance of the VTimeZone
    ob_daylightc, \* observances: the DAYLIGHT observance of the VTimeZone
    ob_table,    \* observances: what get_ordered_timezone_overview returned
    ob_status,   \* observances: "new" | "done"
    local_timezone \* environment: the UTC offset of pendulum's get_local_timezone()

vars == <<e_comp, e_range, e_ste, e_out, e_status,
          children, tl_range, heap, yielded, tl_status, tl_setter,
          p_raw, p_result, p_comp, p_text, p_status,
          pp_input, pp_prop, pp_got, pp_status,
          ts_self, ts_other, ts_result, ts_status,
          tz_standardc, tz_daylightc, tz_dt, tz_result, tz_status,
          tr_comps, tr_props, tr_context, tr_with, tr_last, tr_calls, tr_parent_setter,
          it_rrule, it_start, it_dur, it_range, it_dt, it_k, it_out, it_status,
          rp_comp, rp_range, rp_first, rp_second, rp_lists,
          lo_standardc, lo_daylightc, lo_dt, lo_first, lo_second, lo_status,
          mc_comp, mc_runs, mc_reads, mc_last, mc_storage, mc_tz_runs,
          ob_standardc, ob_daylightc, ob_table, ob_status,
          local_timezone>>

e_vars == <<e_comp, e_range, e_ste, e_out, e_status>>
tl_vars == <<children, tl_range, heap, yielded, tl_status, tl_setter>>
p_vars == <<p_raw, p_result, p_comp, p_text, p_status>>
pp_vars == <<pp_input, pp_prop, pp_got, pp_status>>
ts_vars == <<ts_self, ts_other, ts_result, ts_status>>
tz_vars == <<tz_standardc, tz_daylightc, tz_dt, tz_result, tz_status>>
tr_vars == <<tr_comps, tr_props, tr_context, tr_with, tr_last, tr_calls, tr_parent_setter>>
it_vars == <<it_rrule, it_start, it_dur, it_range, it_dt, it_k, it_out, it_status>>
rp_vars == <<rp_comp, rp_range, rp_first, rp_second, rp_lists>>
lo_vars == <<lo_standardc, lo_daylightc, lo_dt, lo_first, lo_second, lo_status>>
mc_vars == <<mc_comp, mc_runs, mc_reads, mc_last, mc_storage, mc_tz_runs>>
ob_vars == <<ob_standardc, ob_daylightc, ob_table, ob_status>>
env_vars == <<local_timezone>>

----------------------------------------------------------------------------
(* Bounds of the model. *)
MaxT == 3            \* instants of the inputs are 0..MaxT
MaxStart == 1        \* DTSTART is in 0..MaxStart
MaxDur == 1          \* DTEND - DTSTART and DURATION are at most MaxDur
MaxRDates == 2       \* RDATE values per component (expansion)
MaxExDates == 1      \* EXDATE values per component
MaxCount == 2        \* largest COUNT of an RRULE
MaxInterval == 2     \* largest INTERVAL of an RRULE
MaxPeriods == 1      \* PERIOD values of the RDATE properties of a component
TzYear == 4          \* instants between two instances of the RRULE of an observance
MaxTzStart == 3      \* DTSTART of an observance is in 0..MaxTzStart
MaxComps == 3        \* Component objects of a tree, the root VCALENDAR included
MaxProps == 1        \* Property objects constructed next to a tree
MaxCalls == 2        \* calls made on the existing objects of a tree
MaxDepth == 2        \* nested with-blocks
MaxPropLines == 4    \* property lines of the VEVENT of a text
MaxCaseLines == 2    \* property lines of the VEVENT of a text with mixed-case names
MaxReads == 3        \* reads of memoised properties and calls on one instance
MaxBody == 5         \* physical lines of a text after BEGIN:VCALENDAR
MaxParams == 2       \* parameters of a property line

(* Absent (None) values. *)
NoTime == -1
NoDur == -1
NoCount == 0

(* pendulum's DateTime.min and DateTime.max on the integer axis. *)
DateTimeMin == -1000
DateTimeMax == 1000

TzHorizon == 2 * TzYear + MaxTzStart

Times == 0 .. MaxT

NoRRule == [present |-> FALSE, interval |-> 1, count |-> NoCount, until |-> NoTime]

SeqsUpTo(S, n) == UNION {[1 .. k -> S] : k \in 0 .. n}

SetOfSeq(s) == {s[i] : i \in 1 .. Len(s)}

Max2(a, b) == IF a >= b THEN a ELSE b

MaxOfSeq(s) == CHOOSE m \in SetOfSeq(s) : \A x \in SetOfSeq(s) : x <= m

----------------------------------------------------------------------------
(* help_modules/timespan.py *)

Timespan(b, e) == [begin |-> b, end |-> e]

TimespanWithParent(p, b, e) == [begin |-> b, end |-> e, parent |-> p]

(* An intersects that holds only when the spans share an interval of     *)
(* positive length: the strict comparison of half-open spans              *)
intersects_HalfOpen(self, other) ==
    self.begin < other.end /\ other.begin < self.end

(* Timespan.intersects *)
intersects(self, other) ==
    \/ (self.begin <= other.begin /\ other.begin < self.end)
    \/ (self.begin <= other.end /\ other.end < self.end)
    \/ (other.begin <= self.begin /\ self.begin < other.end)
    \/ (other.begin <= self.end /\ self.end < other.end)

(* Timespan.__lt__ with the comparison of the tuples turned around *)
TimespanLt_Reversed(a, b) ==
    \/ a.begin > b.begin
    \/ (a.begin = b.begin /\ a.end > b.end)

(* Timespan.__lt__: the tuples (begin, end) compared lexicographically *)
TimespanLt(a, b) ==
    \/ a.begin < b.begin
    \/ (a.begin = b.begin /\ a.end < b.end)

----------------------------------------------------------------------------
(* ical_components/abstract_components.py and v_event.py: a VEVENT is a    *)
(* record [uid, dtstart, dtend, duration, rrule, rdate, exdate,            *)
(* recurrence_id]; rdate and exdate are the values of all RDATE / EXDATE   *)
(* properties in document order.                                           *)

(* bool(Duration): a zero Duration is falsy, None is falsy *)
Truthy(d) == d # NoDur /\ d # 0

(* VEvent.get_duration *)
get_duration(c) == c.duration

(* AbstractComponentWithRecurringProperties.start *)
start(c) == c.dtstart

(* AbstractComponentWithRecurringProperties.end (ending = DTEND) *)
end(c) ==
    IF c.dtend # NoTime THEN c.dtend
    ELSE IF start(c) # NoTime /\ Truthy(get_duration(c)) THEN start(c) + get_duration(c)
    ELSE NoTime

(* AbstractComponentWithRecurringProperties.computed_duration *)
computed_duration(c) ==
    IF Truthy(get_duration(c)) THEN get_duration(c)
    ELSE IF end(c) # NoTime /\ start(c) # NoTime THEN end(c) - start(c)
    ELSE NoDur

(* AbstractComponentWithRecurringProperties.timespan: None when there is   *)
(* no start; with a start and no end the first TimespanWithParent is       *)
(* built and dropped, and the second one is built with end=None, which     *)
(* convert_time_object_to_aware_datetime rejects.  parent is the index of  *)
(* the component and whether the timespan belongs to a VRecurringEvent.    *)
NoneTimespan == [begin |-> NoTime, end |-> NoTime, parent |-> [orig |-> 0, recurring |-> FALSE]]

timespan(c, idx) ==
    IF start(c) = NoTime THEN [err |-> "ok", ts |-> NoneTimespan]
    ELSE IF end(c) = NoTime THEN [err |-> "AttributeError", ts |-> NoneTimespan]
    ELSE [err |-> "ok",
          ts |-> TimespanWithParent([orig |-> idx, recurring |-> FALSE], start(c), end(c))]

----------------------------------------------------------------------------
(* ical_properties/rrule.py *)

(* What dateutil's rrule(dtstart, freq, interval, count, until) yields,    *)
(* cut where sequence_iterator breaks (dt > max_datetime): the k-th        *)
(* instance is dtstart + (k-1)*interval.                                   *)
RECURSIVE RRuleFrom(_, _, _, _)
RRuleFrom(rr, dt, k, max_datetime) ==
    IF \/ dt > max_datetime
       \/ (rr.count # NoCount /\ k > rr.count)
       \/ (rr.until # NoTime /\ dt > rr.until)
    THEN <<>>
    ELSE <<dt>> \o RRuleFrom(rr, dt + rr.interval, k + 1, max_datetime)

(* RRule.sequence_iterator: ValueError when starting_datetime >= max_datetime *)
sequence_iterator(rr, starting_datetime, max_datetime) ==
    IF starting_datetime >= max_datetime
    THEN [err |-> "ValueError", vals |-> <<>>]
    ELSE [err |-> "ok", vals |-> RRuleFrom(rr, starting_datetime, 1, max_datetime)]

(* RRule.compute_max_end_date *)
compute_max_end_date(rr, starting_datetime, component_duration) ==
    IF rr.until # NoTime THEN rr.until + component_duration
    ELSE IF rr.count # NoCount /\ rr.count < 1000
    THEN LET it == sequence_iterator(rr, starting_datetime, DateTimeMax)
         IN  it.vals[Len(it.vals)] + component_duration
    ELSE DateTimeMax

(* RDate.compute_max_end_date: the latest RDATE value plus the duration *)
rdate_compute_max_end_date(rdate, component_duration) ==
    MaxOfSeq(rdate) + component_duration

(* AbstractComponentWithRecurringProperties.max_recurring_timespan;        *)
(* isnone stands for a returned None.                                      *)
max_recurring_timespan(c) ==
    IF start(c) = NoTime \/ ~Truthy(computed_duration(c))
    THEN [isnone |-> TRUE, ts |-> Timespan(NoTime, NoTime)]
    ELSE IF ~c.rrule.present /\ c.rdate = <<>>
    THEN [isnone |-> FALSE, ts |-> Timespan(start(c), end(c))]
    ELSE LET m1 == IF c.rdate # <<>>
                   THEN Max2(DateTimeMin, rdate_compute_max_end_date(c.rdate, computed_duration(c)))
                   ELSE DateTimeMin
             m2 == IF c.rrule.present
                   THEN Max2(m1, compute_max_end_date(c.rrule, start(c), computed_duration(c)))
                   ELSE m1
         IN  IF m2 # DateTimeMin
             THEN [isnone |-> FALSE, ts |-> Timespan(start(c), m2)]
             ELSE [isnone |-> TRUE, ts |-> Timespan(NoTime, NoTime)]

----------------------------------------------------------------------------
(* help_modules/property_utils.py *)

(* _compute_exdates: the known exclusions plus the EXDATE values whose     *)
(* (time, time + duration) intersects the range                            *)
_compute_exdates(exdate_list, return_range, first_event_duration, starts_to_exclude) ==
    SetOfSeq(starts_to_exclude) \cup
    {t \in SetOfSeq(exdate_list) :
        intersects(return_range, Timespan(t, t + first_event_duration))}

(* _yield_rdate_list for DATE-TIME values *)
_yield_rdate_list(rdate_list, excluded_times_set, first_event_duration, return_range) ==
    LET Keep(t) == /\ intersects(return_range, Timespan(t, t + first_event_duration))
                   /\ t \notin excluded_times_set
        kept == SelectSeq(rdate_list, Keep)
    IN  [i \in 1 .. Len(kept) |-> Timespan(kept[i], kept[i] + first_event_duration)]

(* _yield_rrule_list *)
_yield_rrule_list(rrule, excluded_times_set, first_event_start, first_event_duration, return_range) ==
    IF ~rrule.present THEN [err |-> "ok", vals |-> <<>>]
    ELSE LET it == sequence_iterator(rrule, first_event_start, return_range.end)
             Keep(t) == /\ intersects(return_range, Timespan(t, t + first_event_duration))
                        /\ t \notin excluded_times_set
         IN  [err |-> it.err, vals |-> SelectSeq(it.vals, Keep)]

(* property_utils.expand_component_in_range: the RDATE occurrences, then   *)
(* the RRULE occurrences, both filtered by the same excluded set           *)
pu_expand_component_in_range(exdate_list, rdate_list, rrule, first_event_start, first_event_duration, starts_to_exclude, return_range) ==
    LET excluded_times_set == _compute_exdates(exdate_list, return_range,
                                               first_event_duration, starts_to_exclude)
        rd == _yield_rdate_list(rdate_list, excluded_times_set, first_event_duration, return_range)
        rr == _yield_rrule_list(rrule, excluded_times_set, first_event_start,
                                first_event_duration, return_range)
    IN  [err |-> rr.err,
         vals |-> rd \o [i \in 1 .. Len(rr.vals) |->
                            Timespan(rr.vals[i], rr.vals[i] + first_event_duration)]]

----------------------------------------------------------------------------
(* ical_components/v_event.py *)

(* VEvent.expand_component_in_range, run to exhaustion.  starts_to_exclude *)
(* is [isnone, l]: the list object the caller passed, or None.  The result *)
(* carries the exception (or "ok"), the timespans yielded and the list     *)
(* object after the call (the generator appends self.start to it).         *)
expand_component_in_range(c, idx, return_range, starts_to_exclude) ==
    LET first == timespan(c, idx)
        ste1 == [isnone |-> FALSE, l |-> Append(starts_to_exclude.l, start(c))]
    IN  IF first.err # "ok"
        THEN [err |-> first.err, out |-> <<>>, ste |-> starts_to_exclude]
        ELSE IF starts_to_exclude.isnone
        THEN [err |-> "AttributeError", out |-> <<first.ts>>, ste |-> starts_to_exclude]
        ELSE IF start(c) = NoTime \/ ~Truthy(computed_duration(c))
        THEN [err |-> "ok", out |-> <<first.ts>>, ste |-> ste1]
        ELSE LET it == pu_expand_component_in_range(c.exdate, c.rdate, c.rrule, start(c),
                                                    computed_duration(c), ste1.l, return_range)
             IN  [err |-> it.err,
                  out |-> <<first.ts>> \o
                          [i \in 1 .. Len(it.vals) |->
                              TimespanWithParent([orig |-> idx, recurring |-> TRUE],
                                                 it.vals[i].begin, it.vals[i].end)],
                  ste |-> ste1]

(* The generator object that a call of VEvent.expand_component_in_range    *)
(* returns.  The call runs no line of the function; every next() runs it   *)
(* up to its next yield.  A generator is a record [pc, list, empty,        *)
(* iterator, out, err]: pc is "none" (no call made), "created" (no next()  *)
(* yet), "yielded" (suspended at `yield self.timespan`), "iterating"       *)
(* (suspended at the yield of the loop) or "closed" (returned or raised);  *)
(* list is the list object it was given and empty tells whether that list  *)
(* was empty when the call was made; iterator holds what the generator of  *)
(* property_utils.expand_component_in_range, a local of the frame, has     *)
(* still to yield and the exception it then ends with; out collects the    *)
(* timespans yielded and err is the exception raised.                      *)
NoGenerator ==
    [pc |-> "none", list |-> 0, empty |-> TRUE,
     iterator |-> [err |-> "ok", vals |-> <<>>], out |-> <<>>, err |-> "ok"]

NewGenerator(list, is_empty) ==
    [pc |-> "created", list |-> list, empty |-> is_empty,
     iterator |-> [err |-> "ok", vals |-> <<>>], out |-> <<>>, err |-> "ok"]

(* The loop `for event_start_time, event_end_time in iterator: yield       *)
(* VRecurringEvent(...).timespan`, up to its next yield or its end         *)
resume_loop(frame, idx) ==
    IF frame.iterator.vals # <<>>
    THEN LET v == Head(frame.iterator.vals)
         IN  [frame EXCEPT !.pc = "iterating",
                           !.iterator.vals = Tail(@),
                           !.out = Append(@, TimespanWithParent([orig |-> idx, recurring |-> TRUE],
                                                                v.begin, v.end))]
    ELSE [frame EXCEPT !.pc = "closed", !.err = frame.iterator.err]

(* A next() that yields nothing for a component whose start is already in  *)
(* the list                                                                *)
expand_component_in_range_next_SkipsKnownStart(c, idx, return_range, frame, starts_to_exclude) ==
    IF frame.pc = "created"
    THEN LET first == timespan(c, idx)
         IN  IF first.err # "ok"
             THEN [frame |-> [frame EXCEPT !.pc = "closed", !.err = first.err],
                   list |-> starts_to_exclude]
             ELSE IF start(c) \in SetOfSeq(starts_to_exclude)
             THEN [frame |-> [frame EXCEPT !.pc = "closed"], list |-> starts_to_exclude]
             ELSE [frame |-> [frame EXCEPT !.pc = "yielded", !.out = <<first.ts>>],
                   list |-> starts_to_exclude]
    ELSE IF frame.pc = "yielded"
    THEN LET ste1 == Append(starts_to_exclude, start(c))
         IN  IF start(c) = NoTime \/ ~Truthy(computed_duration(c))
             THEN [frame |-> [frame EXCEPT !.pc = "closed"], list |-> ste1]
             ELSE LET it == pu_expand_component_in_range(c.exdate, c.rdate, c.rrule, start(c),
                                                         computed_duration(c), ste1, return_range)
                  IN  [frame |-> resume_loop([frame EXCEPT !.iterator = it], idx), list |-> ste1]
    ELSE [frame |-> resume_loop(frame, idx), list |-> starts_to_exclude]

(* next(generator) of a generator of VEvent.expand_component_in_range on   *)
(* component c, starts_to_exclude being the list object of the generator   *)
(* as it is now: the generator after the call, and the list after it.      *)
(* The first next() evaluates self.timespan and yields it.  The second     *)
(* appends self.start to the list, returns when there is no start or no    *)
(* duration, and otherwise starts the generator of property_utils, which   *)
(* copies the list into its set of excluded times, and runs the loop to    *)
(* its first yield.  Every later next() continues the loop.                *)
expand_component_in_range_next(c, idx, return_range, frame, starts_to_exclude) ==
    IF frame.pc = "created"
    THEN LET first == timespan(c, idx)
         IN  IF first.err # "ok"
             THEN [frame |-> [frame EXCEPT !.pc = "closed", !.err = first.err],
                   list |-> starts_to_exclude]
             ELSE [frame |-> [frame EXCEPT !.pc = "yielded", !.out = <<first.ts>>],
                   list |-> starts_to_exclude]
    ELSE IF frame.pc = "yielded"
    THEN LET ste1 == Append(starts_to_exclude, start(c))
         IN  IF start(c) = NoTime \/ ~Truthy(computed_duration(c))
             THEN [frame |-> [frame EXCEPT !.pc = "closed"], list |-> ste1]
             ELSE LET it == pu_expand_component_in_range(c.exdate, c.rdate, c.rrule, start(c),
                                                         computed_duration(c), ste1, return_range)
                  IN  [frame |-> resume_loop([frame EXCEPT !.iterator = it], idx), list |-> ste1]
    ELSE [frame |-> resume_loop(frame, idx), list |-> starts_to_exclude]

----------------------------------------------------------------------------
(* RDATE properties of VALUE=PERIOD.  RDate.all_values of such a property  *)
(* is a list of tuples (start, end); a component that has them carries     *)
(* them, in document order, in the field rdate_period, after the values of *)
(* its DATE-TIME RDATE properties.                                         *)

(* _yield_rdate_list over the PERIOD values.  For every value the function *)
(* first computes rdate_time + first_event_duration, and a tuple plus a    *)
(* Duration is a TypeError: the generator raises at the first PERIOD value *)
(* and yields nothing for it.                                              *)
_yield_rdate_list_period(period_list, excluded_times_set, first_event_duration, return_range) ==
    IF period_list = <<>> THEN [err |-> "ok", vals |-> <<>>]
    ELSE [err |-> "TypeError", vals |-> <<>>]

(* VEvent.expand_component_in_range, run to exhaustion, on a component     *)
(* with PERIOD values: the timespan of the component and the DATE-TIME     *)
(* RDATE occurrences are yielded, then _yield_rdate_list reaches the       *)
(* PERIOD values, before any RRULE occurrence.                             *)
expand_component_in_range_period(c, idx, return_range, starts_to_exclude) ==
    LET first == timespan(c, idx)
        ste1 == [isnone |-> FALSE, l |-> Append(starts_to_exclude.l, start(c))]
    IN  IF \/ first.err # "ok"
           \/ starts_to_exclude.isnone
           \/ start(c) = NoTime
           \/ ~Truthy(computed_duration(c))
        THEN expand_component_in_range(c, idx, return_range, starts_to_exclude)
        ELSE LET excluded_times_set == _compute_exdates(c.exdate, return_range,
                                                        computed_duration(c), ste1.l)
                 rd == _yield_rdate_list(c.rdate, excluded_times_set,
                                         computed_duration(c), return_range)
                 pd == _yield_rdate_list_period(c.rdate_period, excluded_times_set,
                                                computed_duration(c), return_range)
             IN  IF pd.err = "ok"
                 THEN expand_component_in_range(c, idx, return_range, starts_to_exclude)
                 ELSE [err |-> pd.err,
                       out |-> <<first.ts>> \o
                               [i \in 1 .. Len(rd) |->
                                   TimespanWithParent([orig |-> idx, recurring |-> TRUE],
                                                      rd[i].begin, rd[i].end)],
                       ste |-> ste1]

----------------------------------------------------------------------------
(* ical_components/v_journal.py: a VJOURNAL is the same record without     *)
(* DTEND and DURATION.                                                     *)

(* VJournal.ending: the DTSTART property *)
vj_ending(c) == c.dtstart

(* VJournal.get_duration: Duration(), the zero duration *)
vj_get_duration(c) == 0

(* AbstractComponentWithRecurringProperties.end of a VJournal *)
vj_end(c) ==
    IF vj_ending(c) # NoTime THEN vj_ending(c)
    ELSE IF start(c) # NoTime /\ Truthy(vj_get_duration(c)) THEN start(c) + vj_get_duration(c)
    ELSE NoTime

(* AbstractComponentWithRecurringProperties.computed_duration of a         *)
(* VJournal: end - start, a zero Period                                    *)
vj_computed_duration(c) ==
    IF Truthy(vj_get_duration(c)) THEN vj_get_duration(c)
    ELSE IF vj_end(c) # NoTime /\ start(c) # NoTime THEN vj_end(c) - start(c)
    ELSE NoDur

(* AbstractComponentWithRecurringProperties.timespan of a VJournal *)
vj_timespan(c, idx) ==
    IF start(c) = NoTime THEN [isnone |-> TRUE, ts |-> NoneTimespan]
    ELSE [isnone |-> FALSE,
          ts |-> TimespanWithParent([orig |-> idx, recurring |-> FALSE], start(c), vj_end(c))]

(* VJournal.expand_component_in_range, run to exhaustion: the timespan of  *)
(* the journal when it intersects the range, then the occurrences of       *)
(* property_utils.expand_component_in_range as VRecurringJournal timespans *)
(* (start, start), unless the start or the computed duration is falsy.     *)
vj_expand_component_in_range(c, idx, return_range, starts_to_exclude) ==
    LET first == vj_timespan(c, idx)
        base == IF intersects(first.ts, return_range) THEN <<first.ts>> ELSE <<>>
        ste1 == [isnone |-> FALSE, l |-> Append(starts_to_exclude.l, start(c))]
    IN  IF first.isnone
        THEN [err |-> "AttributeError", out |-> <<>>, ste |-> starts_to_exclude]
        ELSE IF starts_to_exclude.isnone
        THEN [err |-> "AttributeError", out |-> base, ste |-> starts_to_exclude]
        ELSE IF start(c) = NoTime \/ ~Truthy(vj_computed_duration(c))
        THEN [err |-> "ok", out |-> base, ste |-> ste1]
        ELSE LET it == pu_expand_component_in_range(c.exdate, c.rdate, c.rrule, start(c),
                                                    vj_computed_duration(c), ste1.l, return_range)
             IN  [err |-> it.err,
                  out |-> base \o
                          [i \in 1 .. Len(it.vals) |->
                              TimespanWithParent([orig |-> idx, recurring |-> TRUE],
                                                 it.vals[i].begin, it.vals[i].begin)],
                  ste |-> ste1]

----------------------------------------------------------------------------
(* ical_components/v_timezone.py of package ical_reader.  An observance    *)
(* (STANDARD or DAYLIGHT) is a record [dtstart, tzoffsetfrom, tzoffsetto]  *)
(* with an RRULE that repeats every TzYear instants, the year of the       *)
(* model; dtstart is a wall-clock time.  Times and UTC offsets are counted *)
(* in the same instants: with instants of six hours the offsets 1 and 2    *)
(* are +0600 and +1200 and a day is 4 instants.  A naive datetime is its   *)
(* wall-clock time, an aware datetime is its instant on the UTC axis (the  *)
(* wall-clock time minus the offset of its zone).  An entry of the         *)
(* transition table is [at, period]: the wall-clock time of the transition *)
(* in the zone of tzoffsetfrom, and the observance it starts.              *)

(* The RRULE of an observance: one instance per year of the model, without *)
(* COUNT and UNTIL                                                         *)
YearlyRRule == [present |-> TRUE, interval |-> TzYear, count |-> NoCount, until |-> NoTime]

(* The UTC offsets the machine-local zone can have *)
LocalZones == {0, 1, 2}

(* dt_utils.make_datetime_aware of a naive wall-clock time without tz: the *)
(* time keeps its wall clock and gets get_local_timezone(), so it names    *)
(* the instant dt - local on the UTC axis                                  *)
make_datetime_aware(dt, local) == dt - local

(* _TimeOffsetPeriod.timezone_aware_start: the wall-clock DTSTART in the   *)
(* FixedTimezone of TZOFFSETFROM, as an instant on the UTC axis            *)
timezone_aware_start(period) == period.dtstart - period.tzoffsetfrom

(* Timespan.includes; aware datetimes compare as instants *)
includes(self, instant) == self.begin <= instant /\ instant < self.end

(* _TimeOffsetPeriod.get_time_sequence.  The range is built from the naive *)
(* DTSTART and the naive max_datetime, which Timespan places in the        *)
(* machine-local zone; the RRULE instances are aware in the zone of        *)
(* TZOFFSETFROM.  The instances the range includes are yielded with their  *)
(* wall-clock time in that zone, each with the observance.                 *)
get_time_sequence(period, max_datetime, local) ==
    LET return_range == Timespan(make_datetime_aware(period.dtstart, local),
                                 make_datetime_aware(max_datetime, local))
        it == sequence_iterator(YearlyRRule, timezone_aware_start(period), return_range.end)
        Keep(t) == includes(return_range, t)
        kept == SelectSeq(it.vals, Keep)
    IN  [err |-> it.err,
         vals |-> [i \in 1 .. Len(kept) |->
                      [at |-> kept[i] + period.tzoffsetfrom, period |-> period]]]

(* The instant of a transition: its wall-clock time in the zone of         *)
(* tzoffsetfrom, on the UTC axis                                           *)
InstantOf(entry) == entry.at - entry.period.tzoffsetfrom

(* sorted(all_timezones, key=lambda tup: tup[0]): a stable sort *)
RECURSIVE sorted(_)
sorted(s) ==
    IF s = <<>> THEN <<>>
    ELSE LET rest == sorted(Tail(s))
             IsBefore(e) == InstantOf(e) < InstantOf(Head(s))
             IsNotBefore(e) == ~IsBefore(e)
         IN  SelectSeq(rest, IsBefore) \o <<Head(s)>> \o SelectSeq(rest, IsNotBefore)

(* VTimeZone.get_ordered_timezone_overview; an exception of a              *)
(* get_time_sequence leaves the method                                     *)
get_ordered_timezone_overview(standardc, daylightc, max_datetime, local) ==
    LET s == get_time_sequence(standardc, max_datetime, local)
        d == get_time_sequence(daylightc, max_datetime, local)
    IN  IF s.err # "ok" THEN [err |-> s.err, vals |-> <<>>]
        ELSE IF d.err # "ok" THEN [err |-> d.err, vals |-> <<>>]
        ELSE [err |-> "ok", vals |-> sorted(s.vals \o d.vals)]

(* The loop of convert_naive_datetime_to_aware from entry i on: the result *)
(* is the offset applied, or the naive datetime itself when the loop ends  *)
RECURSIVE convert_loop(_, _, _)
convert_loop(overview, i, dt) ==
    IF i > Len(overview) THEN [aware |-> FALSE, offset |-> 0]
    ELSE IF i = 1 /\ dt < overview[i].at
    THEN [aware |-> TRUE, offset |-> overview[i].period.tzoffsetfrom]
    ELSE IF dt > overview[i].at
    THEN [aware |-> TRUE, offset |-> overview[i].period.tzoffsetto]
    ELSE convert_loop(overview, i + 1, dt)

(* VTimeZone.convert_naive_datetime_to_aware of a naive dt; the table is   *)
(* expanded up to DateTime(2100, 1, 1), here TzHorizon                     *)
convert_naive_datetime_to_aware(standardc, daylightc, dt, local) ==
    LET overview == get_ordered_timezone_overview(standardc, daylightc, TzHorizon, local)
    IN  IF overview.err # "ok" THEN [err |-> overview.err, aware |-> FALSE, offset |-> 0]
        ELSE LET r == convert_loop(overview.vals, 1, dt)
             IN  [err |-> "ok", aware |-> r.aware, offset |-> r.offset]

(* ical_components/v_timezone.py of package ical_library.  An observance   *)
(* is a record [dtstart, tzoffsetfrom, tzoffsetto, rrule, rdate]: the      *)
(* RRULE it has, if any, and the values of its RDATE properties.           *)

(* property_utils.expand_event_in_range_only_return_first: the RDATE       *)
(* values, then the RRULE instances, with a zero Duration and nothing      *)
(* excluded.  The RDATE values are naive: the Timespan the range is        *)
(* compared with places them in the machine-local zone, and _handle_tz     *)
(* then gives the value itself the zone make_tz_aware, keeping its wall    *)
(* clock.  first_event_start and the RRULE instances are instants.         *)
expand_event_in_range_only_return_first(rdate_list, rrule, first_event_start, return_range, make_tz_aware, local) ==
    LET local_rdates == [i \in 1 .. Len(rdate_list) |-> make_datetime_aware(rdate_list[i], local)]
        rd == _yield_rdate_list(local_rdates, {}, 0, return_range)
        rr == _yield_rrule_list(rrule, {}, first_event_start, 0, return_range)
    IN  [err |-> rr.err,
         vals |-> [i \in 1 .. Len(rd) |-> (rd[i].begin + local) - make_tz_aware] \o rr.vals]

(* timedelta(days=1), in instants of six hours *)
OneDay == 4

(* _TimeOffsetPeriod.get_time_sequence: the range begins a day before the  *)
(* aware start of the observance and ends at the naive max_datetime, which *)
(* Timespan places in the machine-local zone; every value is yielded with  *)
(* its wall-clock time in the zone of TZOFFSETFROM                         *)
library_get_time_sequence(period, max_datetime, local) ==
    LET it == expand_event_in_range_only_return_first(
                  period.rdate, period.rrule, timezone_aware_start(period),
                  Timespan(timezone_aware_start(period) - OneDay, make_datetime_aware(max_datetime, local)),
                  period.tzoffsetfrom, local)
    IN  [err |-> it.err,
         vals |-> [i \in 1 .. Len(it.vals) |->
                      [at |-> it.vals[i] + period.tzoffsetfrom, period |-> period]]]

(* VTimeZone.get_ordered_timezone_overview *)
library_get_ordered_timezone_overview(standardc, daylightc, max_datetime, local) ==
    LET s == library_get_time_sequence(standardc, max_datetime, local)
        d == library_get_time_sequence(daylightc, max_datetime, local)
    IN  IF s.err # "ok" THEN [err |-> s.err, vals |-> <<>>]
        ELSE IF d.err # "ok" THEN [err |-> d.err, vals |-> <<>>]
        ELSE [err |-> "ok", vals |-> sorted(s.vals \o d.vals)]

(* A datetime is a record [wall, aware, offset]: its wall-clock time, and  *)
(* whether it has a tzinfo, with the UTC offset of that tzinfo.            *)
DateTime(wall, aware, offset) == [wall |-> wall, aware |-> aware, offset |-> offset]

(* The method without its first two lines: the loop compares the aware dt  *)
(* with the naive dt_object.replace(tzinfo=None), which raises TypeError   *)
convert_naive_datetime_to_aware_dt_NoTzCheck(standardc, daylightc, dt, local) ==
    IF dt.aware THEN [err |-> "TypeError", dt |-> dt]
    ELSE LET r == convert_naive_datetime_to_aware(standardc, daylightc, dt.wall, local)
         IN  [err |-> r.err, dt |-> DateTime(dt.wall, r.aware, r.offset)]

(* VTimeZone.convert_naive_datetime_to_aware of package ical_reader, of    *)
(* any dt: `if dt.tzinfo is not None: return dt`, then the loop.           *)
(* in_timezone on a naive datetime keeps the wall-clock time.              *)
convert_naive_datetime_to_aware_dt(standardc, daylightc, dt, local) ==
    IF dt.aware THEN [err |-> "ok", dt |-> dt]
    ELSE LET r == convert_naive_datetime_to_aware(standardc, daylightc, dt.wall, local)
         IN  [err |-> r.err, dt |-> DateTime(dt.wall, r.aware, r.offset)]

(* An observance of package ical_library with the yearly RRULE of the      *)
(* observances of package ical_reader and no RDATE                         *)
LibraryPeriod(period) ==
    [dtstart |-> period.dtstart, tzoffsetfrom |-> period.tzoffsetfrom,
     tzoffsetto |-> period.tzoffsetto, rrule |-> YearlyRRule, rdate |-> <<>>]

(* VTimeZone.get_ordered_timezone_overview_as_transition: for the first    *)
(* entry of the table the TransitionType is built from                     *)
(* offset_period.tzoffsetto.parse_value_as_seconds(), a staticmethod       *)
(* of one argument called without it, which raises TypeError; an empty     *)
(* table gives an empty list of transitions.                               *)
get_ordered_timezone_overview_as_transition(standardc, daylightc, max_datetime, local) ==
    LET timezones == library_get_ordered_timezone_overview(standardc, daylightc, max_datetime, local)
    IN  IF timezones.err # "ok" THEN [err |-> timezones.err, transitions |-> <<>>]
        ELSE IF timezones.vals # <<>> THEN [err |-> "TypeError", transitions |-> <<>>]
        ELSE [err |-> "ok", transitions |-> <<>>]

(* VTimeZone.convert_naive_datetime_to_aware of package ical_library, of   *)
(* any dt: `if dt.tzinfo is not None: return dt`, then                     *)
(* dt.in_timezone(self.get_as_timezone_object()); get_as_timezone_object   *)
(* builds the transitions up to DateTime(2100, 1, 1), here TzHorizon, and  *)
(* its exception is the exception of the call.  Of a table without any     *)
(* entry pendulum makes a zone without transitions, and pendulum_offset is *)
(* the offset its in_timezone then gives the datetime.                     *)
library_convert_naive_datetime_to_aware(standardc, daylightc, dt, local, pendulum_offset) ==
    IF dt.aware THEN [err |-> "ok", dt |-> dt]
    ELSE LET r == get_ordered_timezone_overview_as_transition(standardc, daylightc, TzHorizon, local)
         IN  IF r.err # "ok" THEN [err |-> r.err, dt |-> dt]
             ELSE [err |-> "ok", dt |-> DateTime(dt.wall, TRUE, pendulum_offset)]

----------------------------------------------------------------------------
(* help_modules/component_context.py and base_classes/component.py: the   *)
(* objects built through the constructors.  A component is a record        *)
(* [cls, name, parent, extra, props, has_prodid, has_version]: parent is   *)
(* the index of                                                            *)
(* the parent component (0 for None), extra is _extra_child_components, a  *)
(* sequence of [name, items] in insertion order of the names, props holds  *)
(* the indices of the properties in _extra_properties, one per             *)
(* set_property call, and has_prodid and has_version tell whether the      *)
(* required properties PRODID and VERSION of a VCalendar are set (a        *)
(* Component has no required property: both are TRUE).  A property is      *)
(* [parent].  The                                                          *)
(* context is [current, previous]: _context_managed_component (0 for None) *)
(* and _previous_context_managed_components.                               *)

(* ComponentContext.push_context_managed_component *)
push_context_managed_component(context, component) ==
    [current |-> component,
     previous |-> IF context.current # 0
                  THEN Append(context.previous, context.current)
                  ELSE context.previous]

(* ComponentContext.pop_context_managed_component that forgets the         *)
(* enclosing components                                                    *)
pop_context_managed_component_ToNone(context) ==
    [current |-> 0, previous |-> context.previous]

(* ComponentContext.pop_context_managed_component *)
pop_context_managed_component(context) ==
    IF context.previous # <<>>
    THEN [current |-> context.previous[Len(context.previous)],
          previous |-> SubSeq(context.previous, 1, Len(context.previous) - 1)]
    ELSE [current |-> 0, previous |-> <<>>]

(* ComponentContext.get_current_component *)
get_current_component(context) == context.current

(* Component.children: the items of _extra_child_components, name by name *)
RECURSIVE children_from(_, _)
children_from(extra, i) ==
    IF i > Len(extra) THEN <<>> ELSE extra[i].items \o children_from(extra, i + 1)

children_of(c) == children_from(c.extra, 1)

(* Component.properties reads every property through its getter, and the  *)
(* getters of VCalendar.prodid and VCalendar.version raise                 *)
(* MissingRequiredProperty when the property is None: has_required tells   *)
(* that no getter raises                                                   *)
has_required(c) == c.has_prodid /\ c.has_version

(* Component.__eq__ of comps[a] and comps[b]: "T", "F", "M" for the        *)
(* MissingRequiredProperty that Component.properties raises when it reads  *)
(* a required property that is not set, or "R" for the RecursionError of a *)
(* comparison that never ends.  The types are compared first, then the     *)
(* properties (all properties of the model are equal, so the dictionaries  *)
(* are equal when they hold as many), then the                             *)
(* lists of children, item by item; the comparison of two items is true at *)
(* once when they are the same object.  fuel bounds the depth: a           *)
(* comparison deeper than the number of pairs of components repeats a pair *)
(* and never ends.                                                         *)
RECURSIVE component_eq(_, _, _, _)
RECURSIVE children_eq(_, _, _, _, _)
component_eq(comps, a, b, fuel) ==
    IF comps[a].cls # comps[b].cls THEN "F"
    ELSE IF ~has_required(comps[a]) \/ ~has_required(comps[b]) THEN "M"
    ELSE IF Len(comps[a].props) # Len(comps[b].props) THEN "F"
    ELSE IF Len(children_of(comps[a])) # Len(children_of(comps[b])) THEN "F"
    ELSE children_eq(comps, children_of(comps[a]), children_of(comps[b]), 1, fuel)

children_eq(comps, xs, ys, k, fuel) ==
    IF k > Len(xs) THEN "T"
    ELSE IF xs[k] = ys[k] THEN children_eq(comps, xs, ys, k + 1, fuel)
    ELSE IF fuel = 0 THEN "R"
    ELSE LET r == component_eq(comps, xs[k], ys[k], fuel - 1)
         IN  IF r = "T" THEN children_eq(comps, xs, ys, k + 1, fuel) ELSE r

(* Component.__add_child_without_setting_the_parent for a child that is    *)
(* an x-comp or iana-comp: appended under its name in                      *)
(* _extra_child_components                                                 *)
add_child_without_setting_the_parent(comps, self, child) ==
    LET extra == comps[self].extra
        name == comps[child].name
        known == {i \in 1 .. Len(extra) : extra[i].name = name}
        extra1 == IF known = {}
                  THEN Append(extra, [name |-> name, items |-> <<child>>])
                  ELSE [i \in 1 .. Len(extra) |->
                           IF i \in known
                           THEN [name |-> name, items |-> Append(extra[i].items, child)]
                           ELSE extra[i]]
    IN  [comps EXCEPT ![self].extra = extra1]

(* Component._set_self_as_parent_for_ical_component for a component.       *)
(* `prop_or_comp.parent = self` assigns to ICalBaseClass.parent.  The      *)
(* module base_classes/base_class.py of ical_library is not among the      *)
(* sources; the ICalBaseClass of ical_reader has a parent property without *)
(* a setter, with which the assignment raises AttributeError and sets      *)
(* nothing, while VCalendar(prodid=ProdID(...)) of tests/conftest.py needs *)
(* the assignment to succeed.  parent_setter tells which of the two the    *)
(* class is.                                                               *)
_set_self_as_parent_for_ical_component(comps, self, child, parent_setter) ==
    IF comps[child].parent = 0
    THEN IF parent_setter
         THEN [err |-> "ok", comps |-> [comps EXCEPT ![child].parent = self]]
         ELSE [err |-> "AttributeError", comps |-> comps]
    ELSE LET r == component_eq(comps, comps[child].parent, self, Len(comps) * Len(comps))
         IN  IF r = "T" THEN [err |-> "ok", comps |-> comps]
             ELSE IF r = "F" THEN [err |-> "ValueError", comps |-> comps]
             ELSE IF r = "M" THEN [err |-> "MissingRequiredProperty", comps |-> comps]
             ELSE [err |-> "RecursionError", comps |-> comps]

(* Component._set_self_as_parent_for_ical_component for a property: the    *)
(* same two branches, the comparison being that of the property's parent   *)
(* component with self                                                     *)
_set_self_as_parent_for_ical_property(comps, props, self, prop, parent_setter) ==
    IF props[prop].parent = 0
    THEN IF parent_setter
         THEN [err |-> "ok", props |-> [props EXCEPT ![prop].parent = self]]
         ELSE [err |-> "AttributeError", props |-> props]
    ELSE LET r == component_eq(comps, props[prop].parent, self, Len(comps) * Len(comps))
         IN  IF r = "T" THEN [err |-> "ok", props |-> props]
             ELSE IF r = "F" THEN [err |-> "ValueError", props |-> props]
             ELSE IF r = "M" THEN [err |-> "MissingRequiredProperty", props |-> props]
             ELSE [err |-> "RecursionError", props |-> props]

(* Component.as_parent(value) from item i of value on.  value is a list of *)
(* items [kind, id], components and properties; a single object is a list  *)
(* of one item.  The items are taken in order, and an exception leaves the *)
(* parents set before it.                                                  *)
RECURSIVE as_parent(_, _, _, _, _, _)
as_parent(comps, props, self, value, i, parent_setter) ==
    IF i > Len(value) THEN [err |-> "ok", comps |-> comps, props |-> props]
    ELSE IF value[i].kind = "component"
    THEN LET r == _set_self_as_parent_for_ical_component(comps, self, value[i].id, parent_setter)
         IN  IF r.err # "ok" THEN [err |-> r.err, comps |-> comps, props |-> props]
             ELSE as_parent(r.comps, props, self, value, i + 1, parent_setter)
    ELSE LET r == _set_self_as_parent_for_ical_property(comps, props, self, value[i].id, parent_setter)
         IN  IF r.err # "ok" THEN [err |-> r.err, comps |-> comps, props |-> props]
             ELSE as_parent(comps, r.props, self, value, i + 1, parent_setter)

(* The setter of VCalendar.prodid: self._prodid = value, a ProdID or None *)
VCalendar_set_prodid(comps, self, value_is_prodid) ==
    [comps EXCEPT ![self].has_prodid = value_is_prodid]

(* The setter of VCalendar.version: self._version = value, a Version or    *)
(* None                                                                    *)
VCalendar_set_version(comps, self, value_is_version) ==
    [comps EXCEPT ![self].has_version = value_is_version]

(* Component.add_child *)
add_child(comps, self, child, parent_setter) ==
    LET r == _set_self_as_parent_for_ical_component(comps, self, child, parent_setter)
    IN  IF r.err # "ok" THEN r
        ELSE [err |-> "ok", comps |-> add_child_without_setting_the_parent(r.comps, self, child)]

(* Component.__init__ of Component(name, parent): the parent given, or the *)
(* current component of the context; without an explicit parent the new    *)
(* component is added to the children of its parent; ValueError when there *)
(* is no parent and the name is not VCALENDAR (the object is dropped).      *)
Component__init__(comps, context, name, parent) ==
    LET the_parent == IF parent # 0 THEN parent ELSE get_current_component(context)
        self == Len(comps) + 1
        comps1 == Append(comps, [cls |-> "Component", name |-> name, parent |-> the_parent,
                                 extra |-> <<>>, props |-> <<>>, has_prodid |-> TRUE, has_version |-> TRUE])
        comps2 == IF parent = 0 /\ the_parent # 0
                  THEN add_child_without_setting_the_parent(comps1, the_parent, self)
                  ELSE comps1
    IN  IF the_parent = 0 /\ name # "VCALENDAR"
        THEN [err |-> "ValueError", comps |-> comps, id |-> 0]
        ELSE [err |-> "ok", comps |-> comps2, id |-> self]

(* Component.set_property of an x-prop: appended to the list of its name   *)
(* in _extra_properties; the parent of the property is not looked at       *)
Component_set_property(comps, self, property_instance) ==
    [comps EXCEPT ![self].props = Append(@, property_instance)]

(* Property.__init__ of Property(value, name, parent=parent): the parent   *)
(* given, or the current component of the context; without an explicit     *)
(* parent the property is set on its parent.                               *)
Property__init__(comps, props, context, parent) ==
    LET the_parent == IF parent # 0 THEN parent ELSE get_current_component(context)
        self == Len(props) + 1
    IN  [props |-> Append(props, [parent |-> the_parent]),
         comps |-> IF parent = 0 /\ the_parent # 0
                   THEN Component_set_property(comps, the_parent, self)
                   ELSE comps,
         id |-> self]

(* Component.parse_property of a line NAME:value with the name of an       *)
(* x-prop: Property(..., parent=self), then self.set_property of it        *)
Component_parse_property(comps, props, context, self) ==
    LET r == Property__init__(comps, props, context, self)
    IN  [props |-> r.props, comps |-> Component_set_property(r.comps, self, r.id), id |-> r.id]

----------------------------------------------------------------------------
(* timeline.py *)

UidsOf(cs) == {cs[i].uid : i \in 1 .. Len(cs)}

(* Timeline.__get_items_to_exclude_from_recurrence: for every UID the      *)
(* RECURRENCE-ID values of its components, in order.  A UID without any    *)
(* RECURRENCE-ID is not a key, and dict.get of it is None.                 *)
RECURSIVE RecurrenceIdsOf(_, _, _)
RecurrenceIdsOf(cs, uid, i) ==
    IF i > Len(cs) THEN <<>>
    ELSE IF cs[i].uid = uid /\ cs[i].recurrence_id # NoTime
    THEN <<cs[i].recurrence_id>> \o RecurrenceIdsOf(cs, uid, i + 1)
    ELSE RecurrenceIdsOf(cs, uid, i + 1)

get_items_to_exclude_from_recurrence(all_components) ==
    [uid \in UidsOf(all_components) |->
        LET l == RecurrenceIdsOf(all_components, uid, 1)
        IN  [isnone |-> l = <<>>, l |-> l]]

(* Timeline.__explode_recurring_components from child i on.  acc carries   *)
(* the exception (or "ok"), list_of_timestamps_with_parents and the        *)
(* per-UID list objects, which the expansions of that UID share and grow.  *)
RECURSIVE ExplodeFrom(_, _, _, _)
ExplodeFrom(cs, range, i, acc) ==
    IF i > Len(cs) \/ acc.err # "ok" THEN acc
    ELSE LET c == cs[i]
             mrt == max_recurring_timespan(c)
         IN  IF mrt.isnone
             THEN [acc EXCEPT !.err = "AttributeError"]
             ELSE IF intersects(mrt.ts, range)
             THEN LET r == expand_component_in_range(c, i, range, acc.excl[c.uid])
                  IN  ExplodeFrom(cs, range, i + 1,
                                  [err |-> r.err,
                                   list |-> acc.list \o r.out,
                                   excl |-> [acc.excl EXCEPT ![c.uid] = r.ste]])
             ELSE ExplodeFrom(cs, range, i + 1, acc)

explode_recurring_components(cs, range) ==
    ExplodeFrom(cs, range, 1,
                [err |-> "ok", list |-> <<>>,
                 excl |-> get_items_to_exclude_from_recurrence(cs)])

RemoveAt(s, i) == SubSeq(s, 1, i - 1) \o SubSeq(s, i + 1, Len(s))

(* heapq.heappop on a heapified list: an element no other element is less  *)
(* than (Timespan.__lt__); which one among equals is left open.            *)
IsHeapMin(h, i) == \A j \in 1 .. Len(h) : ~TimespanLt(h[j], h[i])

----------------------------------------------------------------------------
(* The inputs. *)

RRules ==
    {NoRRule} \cup
    [present : {TRUE}, interval : 1 .. MaxInterval,
     count : {NoCount} \cup 1 .. MaxCount, until : {NoTime, MaxT - 1}]

(* DTEND, DURATION or neither *)
EndOptions(s) ==
    {[dtend |-> NoTime, duration |-> NoDur]} \cup
    {[dtend |-> s + d, duration |-> NoDur] : d \in 0 .. MaxDur} \cup
    {[dtend |-> NoTime, duration |-> d] : d \in 1 .. MaxDur}

VEvent(uid, s, eo, rr, rd, ex, rid) ==
    [uid |-> uid, dtstart |-> s, dtend |-> eo.dtend, duration |-> eo.duration,
     rrule |-> rr, rdate |-> rd, exdate |-> ex, recurrence_id |-> rid]

(* The components expand_component_in_range is called on directly, with   *)
(* DTSTART in starts.                                                      *)
ExpandEvents(starts) ==
    UNION {{VEvent("A", s, eo, rr, rd, ex, NoTime) :
                eo \in EndOptions(s), rr \in RRules,
                rd \in SeqsUpTo(Times, MaxRDates), ex \in SeqsUpTo(Times, MaxExDates)} :
           s \in starts}

Ranges == {r \in [begin : 0 .. MaxT, end : 1 .. MaxT + 1] : r.begin < r.end}

(* The children of the VCalendar of a Timeline: one VEVENT, or two, of    *)
(* UID "A" or "B", each with a DTEND after its DTSTART, with or without an *)
(* RRULE (unbounded, or with a COUNT) and with or without a RECURRENCE-ID  *)
(* (an instant in 0 .. MaxStart + 1).  The range of the Timeline begins at *)
(* instant 0 or after every DTSTART.                                       *)
Uids == {"A", "B"}

TimelineRRules ==
    {NoRRule} \cup
    [present : {TRUE}, interval : {1, MaxInterval},
     count : {NoCount, MaxCount}, until : {NoTime}]

TimelineEvents(uids) ==
    UNION {{VEvent(u, s, [dtend |-> s + d, duration |-> NoDur], rr, <<>>, <<>>, rid) :
                u \in uids, d \in 1 .. MaxDur, rr \in TimelineRRules,
                rid \in {NoTime} \cup 0 .. MaxStart + 1} :
           s \in 0 .. MaxStart}

TimelineRanges == {r \in Ranges : r.begin \in {0, MaxStart + 1}}

Calendars(uids) ==
    {<<c>> : c \in TimelineEvents({"A"})} \cup
    {<<c1, c2>> : c1 \in TimelineEvents({"A"}), c2 \in TimelineEvents(uids)}

----------------------------------------------------------------------------
(* The line parser.  A Python str is modelled as the sequence of its       *)
(* tokens: every character the parser looks at ("\n", "\r", " ", "\t",     *)
(* ":", ";", "=", ",") is a token of its own, and a maximal run of other   *)
(* characters is one word token.  Concatenating strings concatenates the   *)
(* sequences.  None, for a str, is modelled by the empty sequence where    *)
(* the code treats the two alike (`x or ""`).                              *)

NoLine == -1         \* an exception that carries no line number

LF == "\n"
CR == "\r"
SPACE == " "
TAB == "\t"

BEGIN_PREFIX == <<"BEGIN", ":">>
END_PREFIX == <<"END", ":">>

(* str.startswith *)
startswith(s, prefix) ==
    Len(s) >= Len(prefix) /\ SubSeq(s, 1, Len(prefix)) = prefix

(* s[n:] for a 0-based n *)
DropFirst(s, n) == SubSeq(s, n + 1, Len(s))

(* str.count(ch) *)
count_of(s, ch) == Cardinality({i \in 1 .. Len(s) : s[i] = ch})

(* re.split / str.split on a single separator character *)
RECURSIVE split_on(_, _, _, _)
split_on(s, sep, i, cur) ==
    IF i > Len(s) THEN <<cur>>
    ELSE IF s[i] = sep THEN <<cur>> \o split_on(s, sep, i + 1, <<>>)
    ELSE split_on(s, sep, i + 1, Append(cur, s[i]))

split(s, sep) == split_on(s, sep, 1, <<>>)

(* sep.join(parts) *)
RECURSIVE join_from(_, _, _)
join_from(sep, parts, i) ==
    IF i > Len(parts) THEN <<>>
    ELSE IF i = Len(parts) THEN parts[i]
    ELSE parts[i] \o <<sep>> \o join_from(sep, parts, i + 1)

join(sep, parts) == join_from(sep, parts, 1)

(* re.sub(r"^\n|^\r|\n$|\r$", "", line) on a line that holds no "\n":     *)
(* one leading "\r" and one trailing "\r" are removed.                     *)
strip_line_break(line) ==
    LET a == IF line # <<>> /\ Head(line) = CR THEN Tail(line) ELSE line
    IN  IF a # <<>> /\ a[Len(a)] = CR THEN SubSeq(a, 1, Len(a) - 1) ELSE a

(* The `lines` list of parse_lines_into_calendar: the non-empty lines.    *)
RECURSIVE non_empty_lines(_, _)
non_empty_lines(parts, i) ==
    IF i > Len(parts) THEN <<>>
    ELSE LET line_content == strip_line_break(parts[i])
         IN  (IF Len(line_content) > 0 THEN <<line_content>> ELSE <<>>)
             \o non_empty_lines(parts, i + 1)

raw_lines(raw_text) == non_empty_lines(split(raw_text, LF), 1)

(* --- Property lines ---------------------------------------------------- *)

(* The end of the longest run of characters of a class that starts at p:  *)
(* the first index at or after p whose token is in `stop`, or Len + 1.     *)
RECURSIVE run_end(_, _, _)
run_end(line, p, stop) ==
    IF p > Len(line) \/ line[p] \in stop THEN p
    ELSE run_end(line, p + 1, stop)

(* One attempt at position p of the pattern of parse_property: a name of  *)
(* one or more characters other than CR, LF, semicolon and colon; an      *)
(* optional group of a semicolon and one or more characters other than    *)
(* CR, LF and colon; a colon; the rest of the line.  Both groups are      *)
(* greedy and what ends them is the character the pattern needs next, so  *)
(* no shorter match exists when the longest one fails.                     *)
match_at(line, p) ==
    LET q == run_end(line, p, {CR, LF, ";", ":"})
        r == IF q <= Len(line) /\ line[q] = ";"
             THEN run_end(line, q + 1, {CR, LF, ":"})
             ELSE q
        with_params == q <= Len(line) /\ line[q] = ";" /\ r > q + 1
                       /\ r <= Len(line) /\ line[r] = ":"
        without == q <= Len(line) /\ line[q] = ":"
    IN  IF q = p THEN [matched |-> FALSE]
        ELSE IF with_params
        THEN [matched |-> TRUE, name |-> SubSeq(line, p, q - 1),
              property_parameters |-> SubSeq(line, q, r - 1),
              value |-> DropFirst(line, r)]
        ELSE IF without
        THEN [matched |-> TRUE, name |-> SubSeq(line, p, q - 1),
              property_parameters |-> <<>>, value |-> DropFirst(line, q)]
        ELSE [matched |-> FALSE]

(* re.search: the leftmost position at which the pattern matches.         *)
RECURSIVE re_search(_, _)
re_search(line, p) ==
    IF p > Len(line) THEN [matched |-> FALSE]
    ELSE LET m == match_at(line, p)
         IN  IF m.matched THEN m ELSE re_search(line, p + 1)

(* The iCalendar names of the properties a class declares as            *)
(* Optional[X], from the signature of its __init__ (of                    *)
(* _TimeOffsetPeriod.__init__ for Standard and DayLight)                   *)
SingleProperties(cls) ==
    IF cls = "VCalendar" THEN
         {"CALSCALE", "METHOD", "PRODID", "VERSION"}
    ELSE IF cls = "VEvent" THEN
         {"CLASS", "CREATED", "DESCRIPTION", "DTEND", "DTSTAMP",
          "DTSTART", "DURATION", "GEO", "LAST-MODIFIED", "LOCATION",
          "ORGANIZER", "PRIORITY", "RECURRENCE-ID", "RRULE",
          "SEQUENCE", "STATUS", "SUMMARY", "TRANSP", "UID", "URL"}
    ELSE IF cls = "VToDo" THEN
         {"CLASS", "COMPLETED", "CREATED", "DESCRIPTION", "DTSTAMP",
          "DTSTART", "DUE", "DURATION", "GEO", "LAST-MODIFIED",
          "LOCATION", "ORGANIZER", "PERCENT-COMPLETE", "PRIORITY",
          "RECURRENCE-ID", "RRULE", "SEQUENCE", "STATUS", "SUMMARY",
          "UID", "URL"}
    ELSE IF cls = "VJournal" THEN
         {"CLASS", "CREATED", "DTSTAMP", "DTSTART", "LAST-MODIFIED",
          "ORGANIZER", "RECURRENCE-ID", "RRULE", "SEQUENCE", "STATUS",
          "SUMMARY", "UID", "URL"}
    ELSE IF cls = "VFreeBusy" THEN
         {"CONTACT", "DTEND", "DTSTAMP", "DTSTART", "ORGANIZER", "UID",
          "URL"}
    ELSE IF cls = "VTimeZone" THEN
         {"LAST-MODIFIED", "TZID", "TZURL"}
    ELSE IF cls = "Standard" THEN
         {"DTSTART", "RRULE", "TZOFFSETFROM", "TZOFFSETTO"}
    ELSE IF cls = "DayLight" THEN
         {"DTSTART", "RRULE", "TZOFFSETFROM", "TZOFFSETTO"}
    ELSE IF cls = "VAlarm" THEN
         {"ACTION", "ATTACH", "DURATION", "REPEAT", "TRIGGER"}
    ELSE {}

(* The names of the properties a class declares as Optional[List[X]] *)
ListProperties(cls) ==
    IF cls = "VEvent" THEN
         {"ATTACH", "ATTENDEE", "CATEGORIES", "COMMENT", "CONTACT",
          "EXDATE", "RDATE", "RELATED-TO", "REQUEST-STATUS",
          "RESOURCES"}
    ELSE IF cls = "VToDo" THEN
         {"ATTACH", "ATTENDEE", "CATEGORIES", "COMMENT", "CONTACT",
          "EXDATE", "RDATE", "RELATED-TO", "REQUEST-STATUS",
          "RESOURCES"}
    ELSE IF cls = "VJournal" THEN
         {"ATTACH", "ATTENDEE", "CATEGORIES", "COMMENT", "CONTACT",
          "DESCRIPTION", "EXDATE", "RDATE", "RELATED-TO",
          "REQUEST-STATUS"}
    ELSE IF cls = "VFreeBusy" THEN
         {"ATTENDEE", "COMMENT", "FREEBUSY", "REQUEST-STATUS"}
    ELSE IF cls = "Standard" THEN
         {"COMMENT", "RDATE", "TZNAME"}
    ELSE IF cls = "DayLight" THEN
         {"COMMENT", "RDATE", "TZNAME"}
    ELSE {}

(* cls._get_property_mapping(): "single" for Optional[X], "list" for      *)
(* Optional[List[X]], "none" for a name the class does not declare (an    *)
(* x-prop or iana-prop).  A name is a sequence of tokens; a declared one  *)
(* is a single token.                                                      *)
_get_property_mapping(cls, name) ==
    IF Len(name) = 1 /\ name[1] \in SingleProperties(cls) THEN "single"
    ELSE IF Len(name) = 1 /\ name[1] \in ListProperties(cls) THEN "list"
    ELSE "none"

(* Component.parse_property, the Property instance it builds; the class   *)
(* of the instance is the declared one, or Property.                       *)
parse_property(cls, line) ==
    LET result == re_search(line, 1)
    IN  IF ~result.matched
        THEN [err |-> "ValueError"]
        ELSE [err |-> "ok",
              name |-> result.name,
              typed |-> _get_property_mapping(cls, result.name) # "none",
              _property_parameters |-> result.property_parameters,
              value |-> result.value]

(* A set_property that keeps the first occurrence of a declared single     *)
(* property and drops the later ones                                       *)
set_property_KeepsFirst(properties, cls, property_instance) ==
    LET p == [name |-> property_instance.name,
              typed |-> property_instance.typed,
              _property_parameters |-> property_instance._property_parameters,
              value |-> property_instance.value]
        same(x) == x.name = p.name
    IN  IF _get_property_mapping(cls, p.name) = "single" /\ SelectSeq(properties, same) # <<>>
        THEN properties
        ELSE Append(properties, p)

(* Component.set_property on the component's properties, kept in the      *)
(* order they were set: a declared single property replaces the one set   *)
(* before, any other is appended to its list.                              *)
set_property(properties, cls, property_instance) ==
    LET p == [name |-> property_instance.name,
              typed |-> property_instance.typed,
              _property_parameters |-> property_instance._property_parameters,
              value |-> property_instance.value]
        other(x) == x.name # p.name
    IN  IF _get_property_mapping(cls, p.name) = "single"
        THEN Append(SelectSeq(properties, other), p)
        ELSE Append(properties, p)

(* Property.property_parameters: the dict, as the sequence of its items   *)
(* in insertion order (a later item of the same key wins in `dict_get`).   *)
RECURSIVE dict_items(_, _)
dict_items(parts, i) ==
    IF i > Len(parts) THEN <<>>
    ELSE LET key_and_value == parts[i]
             kv == split(key_and_value, "=")
         IN  (IF count_of(key_and_value, "=") = 1
              THEN <<[key |-> kv[1], value |-> kv[2]]>>
              ELSE <<>>) \o dict_items(parts, i + 1)

property_parameters(prop) == dict_items(split(prop._property_parameters, ","), 1)

(* dict.get(key, None) *)
dict_get(items, key) ==
    LET hits == {i \in 1 .. Len(items) : items[i].key = key}
    IN  IF hits = {} THEN [isnone |-> TRUE, value |-> <<>>]
        ELSE [isnone |-> FALSE,
              value |-> items[CHOOSE i \in hits : \A j \in hits : j <= i].value]

(* Property.get_property_parameter *)
get_property_parameter(prop, key) == dict_get(property_parameters(prop), key)

(* --- Components -------------------------------------------------------- *)

(* An exception: its type, the statement that raised it, and what its     *)
(* message or arguments carry: a component name (<<>> if none) and a line *)
(* number (NoLine if none).                                                *)
Raised(type, site, component) ==
    [err |-> type, site |-> site, component |-> component, line_no |-> NoLine]

(* A Component instance as parse_component leaves it.  `parent` is the    *)
(* index of the parent in the list of instances (0 for the tree root).     *)
NewComponent(cls, name, parent) ==
    [cls |-> cls, name |-> name, parent |-> parent,
     _parse_line_start |-> 0, _parse_line_end |-> 0, properties |-> <<>>]

(* Component._instantiate_component: the class _get_child_component_       *)
(* mapping of the parent declares for the name, or Component.              *)
_instantiate_component(parent_cls, ical_component_identifier) ==
    IF parent_cls = "VCalendar" /\ ical_component_identifier = <<"VEVENT">> THEN "VEvent"
    ELSE IF parent_cls = "VCalendar" /\ ical_component_identifier = <<"VTODO">> THEN "VToDo"
    ELSE IF parent_cls = "VCalendar" /\ ical_component_identifier = <<"VJOURNAL">> THEN "VJournal"
    ELSE IF parent_cls = "VCalendar" /\ ical_component_identifier = <<"VFREEBUSY">> THEN "VFreeBusy"
    ELSE IF parent_cls = "VCalendar" /\ ical_component_identifier = <<"VTIMEZONE">> THEN "VTimeZone"
    ELSE IF parent_cls \in {"VEvent", "VToDo"} /\ ical_component_identifier = <<"VALARM">> THEN "VAlarm"
    ELSE IF parent_cls = "VTimeZone" /\ ical_component_identifier = <<"STANDARD">> THEN "Standard"
    ELSE IF parent_cls = "VTimeZone" /\ ical_component_identifier = <<"DAYLIGHT">> THEN "DayLight"
    ELSE "Component"

HasProperty(c, name) == \E i \in 1 .. Len(c.properties) : c.properties[i].name = name

(* The properties whose getter raises MissingRequiredProperty while the   *)
(* property is not set                                                     *)
RequiredProperties(cls) ==
    IF cls = "VCalendar" THEN {"PRODID", "VERSION"}
    ELSE IF cls \in {"VEvent", "VToDo", "VJournal", "VFreeBusy"} THEN {"DTSTAMP", "UID"}
    ELSE IF cls = "VTimeZone" THEN {"TZID"}
    ELSE IF cls = "VAlarm" THEN {"ACTION", "TRIGGER"}
    ELSE {}

(* Component.properties reads every declared property with getattr: the   *)
(* getter of a required property that was not parsed yet raises            *)
required_property_missing(c) ==
    \E name \in RequiredProperties(c.cls) : ~HasProperty(c, <<name>>)

(* `child.parent != self` in _set_self_as_parent_for_ical_component, when *)
(* add_child is given the child that was instantiated with parent=self:   *)
(* Component.__eq__ reads self.properties; the __eq__ of a VEvent, VToDo  *)
(* or VJournal reads dtstart, ending, summary and comment only.            *)
eq_error(c) ==
    IF c.cls \notin {"VEvent", "VToDo", "VJournal"} /\ required_property_missing(c)
    THEN "MissingRequiredProperty"
    ELSE "ok"

(* repr(self), which formats the message of the mismatched-END            *)
(* ValueError.  VCalendar, VTimeZone and VAlarm read required properties; *)
(* Standard and DayLight read .value of dtstart and tzoffsetto, None      *)
(* until parsed; VEvent, VToDo, VJournal and VFreeBusy read optional      *)
(* properties; Component.__repr__ reads self.properties.  (A VEvent with  *)
(* both DTSTART and DTEND and a VJournal with DTSTART also format the     *)
(* parsed date values, which this model does not interpret.)               *)
repr_error(c) ==
    IF c.cls \in {"VCalendar", "VTimeZone", "VAlarm"} /\ required_property_missing(c)
    THEN "MissingRequiredProperty"
    ELSE IF /\ c.cls \in {"Standard", "DayLight"}
            /\ ~(HasProperty(c, <<"DTSTART">>) /\ HasProperty(c, <<"TZOFFSETTO">>))
    THEN "AttributeError"
    ELSE "ok"

(* The inner loop of parse_component: the continuation lines, those that  *)
(* start with a space, are appended without their first character.  The   *)
(* loop reads lines[line_number] before it tests it: IndexError at the    *)
(* end of the list.                                                        *)
RECURSIVE fold_continuations(_, _, _)
fold_continuations(lines, line_number, full_line_without_line_breaks) ==
    IF line_number >= Len(lines)
    THEN [err |-> "IndexError"]
    ELSE LET next_line == lines[line_number + 1]
         IN  IF startswith(next_line, <<SPACE>>)
             THEN fold_continuations(lines, line_number + 1,
                                     full_line_without_line_breaks \o DropFirst(next_line, 1))
             ELSE [err |-> "ok", line_number |-> line_number,
                   full_line |-> full_line_without_line_breaks]

(* Component.parse_component(lines, line_number) on the instance          *)
(* comps[self]; `lines` is 0-indexed in the code, so lines[n] of the code *)
(* is lines[n + 1] here.  The result is the exception raised, or the      *)
(* returned line number and the instances.                                 *)
RECURSIVE parse_loop(_, _, _, _)
parse_loop(lines, line_number, comps, self) ==
    IF line_number >= Len(lines)
    THEN Raised("IndexError", "lines[line_number]", <<>>)
    ELSE
    LET current_line == lines[line_number + 1]
    IN  IF startswith(current_line, END_PREFIX)
        THEN IF current_line # END_PREFIX \o comps[self].name
             THEN IF repr_error(comps[self]) # "ok"
                  THEN Raised(repr_error(comps[self]), "repr(self)", comps[self].name)
                  ELSE Raised("ValueError", "never closed", comps[self].name)
             ELSE [err |-> "ok", line_number |-> line_number + 1,
                   comps |-> [comps EXCEPT ![self]._parse_line_end = line_number + 1]]
        ELSE IF startswith(current_line, BEGIN_PREFIX)
        THEN LET component_name == DropFirst(current_line, Len(BEGIN_PREFIX))
                 child_instance == NewComponent(_instantiate_component(comps[self].cls, component_name),
                                          component_name, self)
                 child == Len(comps) + 1
                 started == [Append(comps, child_instance) EXCEPT ![child]._parse_line_start = line_number]
                 r == parse_loop(lines, line_number + 1, started, child)
             IN  IF eq_error(comps[self]) # "ok"
                 THEN Raised(eq_error(comps[self]), "add_child", comps[self].name)
                 ELSE IF r.err # "ok" THEN r
                 ELSE parse_loop(lines, r.line_number, r.comps, self)
        ELSE LET f == fold_continuations(lines, line_number + 1, current_line)
             IN  IF f.err # "ok"
                 THEN Raised("IndexError", "lines[line_number]", <<>>)
                 ELSE LET p == parse_property(comps[self].cls, f.full_line)
                      IN  IF p.err # "ok"
                          THEN Raised("ValueError", "invalid line", <<>>)
                          ELSE parse_loop(lines, f.line_number,
                                   [comps EXCEPT ![self].properties =
                                       set_property(@, comps[self].cls, p)],
                                   self)

parse_component(lines, line_number, comps, self) ==
    parse_loop(lines, line_number,
               [comps EXCEPT ![self]._parse_line_start = line_number - 1], self)

(* client.parse_lines_into_calendar(raw_text): the exception raised, or   *)
(* the VCalendar: its _lines and the instances of the tree, the root      *)
(* first, in the order they were instantiated.                             *)
parse_lines(lines) ==
        IF lines = <<>>
        THEN Raised("IndexError", "lines[0]", <<>>)
        ELSE IF lines[1] # BEGIN_PREFIX \o <<"VCALENDAR">>
        THEN Raised("ValueError", "not a ICalendar", <<>>)
        ELSE LET r == parse_component(lines, 1, <<NewComponent("VCalendar", <<"VCALENDAR">>, 0)>>, 1)
             IN  IF r.err # "ok" THEN r
                 ELSE [err |-> "ok", _lines |-> lines, comps |-> r.comps]

parse_lines_into_calendar(raw_text) == parse_lines(raw_lines(raw_text))

(* A get_original_ical_text whose slice stops one line early. *)
get_original_ical_text_SkipsEnd(lines, start_line, end_line) ==
    LET from == IF start_line > 0 THEN start_line ELSE 0
        to == IF Len(lines) < end_line - 1 THEN Len(lines) ELSE end_line - 1
    IN  join(LF, SubSeq(lines, from + 1, to))

(* VCalendar.get_original_ical_text *)
get_original_ical_text(lines, start_line, end_line) ==
    LET from == IF start_line > 0 THEN start_line ELSE 0
        to == IF Len(lines) < end_line THEN Len(lines) ELSE end_line
    IN  join(LF, SubSeq(lines, from + 1, to))

(* Component.original_ical_text *)
original_ical_text(calendar, c) ==
    get_original_ical_text(calendar._lines, calendar.comps[c]._parse_line_start,
                           calendar.comps[c]._parse_line_end)

(* --- Inputs of the parser ---------------------------------------------- *)

(* The components a calendar of a text holds: VEVENTs, or VTODOs *)
ChildNames == {"VEVENT", "VTODO"}

(* The physical lines a text is made of after its first line: the framing *)
(* lines of the child component and of the VCALENDAR, a property line, a   *)
(* continuation that starts with a space, one that starts with a tab, an   *)
(* empty line.                                                             *)
PhysicalLines(child) ==
    {BEGIN_PREFIX \o <<child>>, END_PREFIX \o <<child>>, END_PREFIX \o <<"VCALENDAR">>,
     <<"DESCRIPTION", ":", "a">>, <<SPACE, "b">>, <<TAB, "b">>, <<>>}

(* The line breaks of a text: LF, or CRLF. *)
LineBreaks == {<<LF>>, <<CR, LF>>}

(* The line breaks of the texts with a kind of child: the lines are split  *)
(* before any component is built, so the texts with VTODOs use LF only.    *)
LineBreaksOf(child) == IF child = "VEVENT" THEN LineBreaks ELSE {<<LF>>}

RECURSIVE RawText(_, _, _)
RawText(physical_lines, line_break, i) ==
    IF i > Len(physical_lines) THEN <<>>
    ELSE IF i = Len(physical_lines) THEN physical_lines[i]
    ELSE physical_lines[i] \o line_break \o RawText(physical_lines, line_break, i + 1)

(* The calendar properties a text starts with: none, or the required     *)
(* PRODID and VERSION.                                                     *)
Headers == {<<>>, <<<<"PRODID", ":", "p">>, <<"VERSION", ":", "2">>>>}

(* The texts: BEGIN:VCALENDAR, a header and up to n more physical lines,   *)
(* with one kind of child component and one line break.                    *)
RawTexts(n, header, child, lb) ==
    {RawText(<<BEGIN_PREFIX \o <<"VCALENDAR">>>> \o header \o body, lb, 1) :
        body \in SeqsUpTo(PhysicalLines(child), n)}

(* The property lines NAME;K1=V1;...:value: a declared name of VEvent or  *)
(* an x-name, up to n parameters of a known or an x-key, each with one    *)
(* value or two.                                                           *)
ParamKeys == {"TZID", "X-KEY"}

Params == [key : ParamKeys, value : {<<"V1">>, <<"V1", ",", "V2">>}]

PropertyInputs(n) ==
    [name : {<<"DTSTART">>, <<"X-PROP">>}, params : SeqsUpTo(Params, n), value : {<<"v">>}]

RECURSIVE ParamText(_, _)
ParamText(params, i) ==
    IF i > Len(params) THEN <<>>
    ELSE <<";", params[i].key, "=">> \o params[i].value \o ParamText(params, i + 1)

PropertyLine(inp) == inp.name \o ParamText(inp.params, 1) \o <<":">> \o inp.value

----------------------------------------------------------------------------
(* The state machines. *)

ExpandIdle ==
    /\ e_comp = VEvent("A", 0, [dtend |-> 1, duration |-> NoDur], NoRRule, <<>>, <<>>, NoTime)
    /\ e_range = Timespan(0, 1)
    /\ e_ste = <<>>
    /\ e_out = <<>>
    /\ e_status = "idle"

TimelineIdle ==
    /\ children = <<>>
    /\ tl_range = Timespan(0, 1)
    /\ heap = <<>>
    /\ yielded = <<>>
    /\ tl_status = "idle"
    /\ tl_setter = "none"

ParseIdle ==
    /\ p_raw = <<>>
    /\ p_result = [err |-> "idle"]
    /\ p_comp = 0
    /\ p_text = <<>>
    /\ p_status = "idle"

PropertyIdle ==
    /\ pp_input = [name |-> <<"X-PROP">>, params |-> <<>>, value |-> <<"v">>]
    /\ pp_prop = [err |-> "idle"]
    /\ pp_got = [key |-> <<>>, isnone |-> TRUE, value |-> <<>>]
    /\ pp_status = "idle"

TimespanIdle ==
    /\ ts_self = Timespan(0, 0)
    /\ ts_other = Timespan(0, 0)
    /\ ts_result = FALSE
    /\ ts_status = "idle"

TimeZoneIdle ==
    /\ tz_standardc = [dtstart |-> 0, tzoffsetfrom |-> 0, tzoffsetto |-> 0]
    /\ tz_daylightc = [dtstart |-> 0, tzoffsetfrom |-> 0, tzoffsetto |-> 0]
    /\ tz_dt = 0
    /\ tz_result = [aware |-> FALSE, offset |-> 0]
    /\ tz_status = "idle"

TreeIdle ==
    /\ tr_comps = <<>>
    /\ tr_props = <<>>
    /\ tr_context = [current |-> 0, previous |-> <<>>]
    /\ tr_with = <<>>
    /\ tr_last = [op |-> "idle", err |-> "ok", explicit |-> 0, id |-> 0]
    /\ tr_calls = 0
    /\ tr_parent_setter = TRUE

RRuleLoopIdle ==
    /\ it_rrule = NoRRule
    /\ it_start = 0
    /\ it_dur = 1
    /\ it_range = Timespan(0, 1)
    /\ it_dt = 0
    /\ it_k = 0
    /\ it_out = <<>>
    /\ it_status = "idle"

RepeatIdle ==
    /\ rp_comp = VEvent("A", 0, [dtend |-> 1, duration |-> NoDur], NoRRule, <<>>, <<>>, NoTime)
    /\ rp_range = Timespan(0, 1)
    /\ rp_first = NoGenerator
    /\ rp_second = NoGenerator
    /\ rp_lists = <<>>

LocaliseIdle ==
    /\ lo_standardc = [dtstart |-> 0, tzoffsetfrom |-> 0, tzoffsetto |-> 0]
    /\ lo_daylightc = [dtstart |-> 0, tzoffsetfrom |-> 0, tzoffsetto |-> 0]
    /\ lo_dt = [wall |-> 0, aware |-> FALSE, offset |-> 0]
    /\ lo_first = [err |-> "idle", dt |-> [wall |-> 0, aware |-> FALSE, offset |-> 0], package |-> "none"]
    /\ lo_second = [err |-> "idle", dt |-> [wall |-> 0, aware |-> FALSE, offset |-> 0]]
    /\ lo_status = "idle"

MemoIdle ==
    /\ mc_comp = VEvent("A", 0, [dtend |-> 1, duration |-> NoDur], NoRRule, <<>>, <<>>, NoTime)
    /\ mc_runs = <<>>
    /\ mc_reads = 0
    /\ mc_last = [name |-> "idle"]
    /\ mc_storage = {}
    /\ mc_tz_runs = <<>>

ObservanceIdle ==
    /\ ob_standardc = [dtstart |-> 0, tzoffsetfrom |-> 0, tzoffsetto |-> 0, rrule |-> NoRRule, rdate |-> <<>>]
    /\ ob_daylightc = [dtstart |-> 0, tzoffsetfrom |-> 0, tzoffsetto |-> 0, rrule |-> NoRRule, rdate |-> <<>>]
    /\ ob_table = <<>>
    /\ ob_status = "idle"

LocalZoneIdle ==
    local_timezone = 0

(* A component and a range; the caller passes an empty exclusion list. *)
InitExpand ==
    /\ e_comp \in ExpandEvents(0 .. MaxStart)
    /\ e_range \in Ranges
    /\ e_ste = <<>>
    /\ e_out = <<>>
    /\ e_status = "new"
    /\ TimelineIdle
    /\ ParseIdle
    /\ PropertyIdle
    /\ TimespanIdle
    /\ TimeZoneIdle
    /\ TreeIdle
    /\ RRuleLoopIdle
    /\ RepeatIdle
    /\ LocaliseIdle
    /\ MemoIdle
    /\ ObservanceIdle
    /\ LocalZoneIdle

(* list(component.expand_component_in_range(return_range, starts_to_exclude)) *)
Expand ==
    /\ e_status = "new"
    /\ LET r == expand_component_in_range(e_comp, 1, e_range, [isnone |-> FALSE, l |-> e_ste])
       IN  /\ e_status' = r.err
           /\ e_out' = IF r.err = "ok" THEN r.out ELSE <<>>
           /\ e_ste' = r.ste.l
    /\ UNCHANGED <<e_comp, e_range, tl_vars, p_vars, pp_vars, ts_vars, tz_vars, tr_vars, it_vars, rp_vars, lo_vars, mc_vars, ob_vars, env_vars>>

NextExpand == Expand

SpecExpand == InitExpand /\ [][NextExpand]_vars

(* A parsed VCalendar and a Timeline over a range. *)
InitTimeline ==
    /\ children \in Calendars(Uids)
    /\ tl_range \in TimelineRanges
    /\ heap = <<>>
    /\ yielded = <<>>
    /\ tl_status = "new"
    /\ tl_setter = "none"
    /\ ExpandIdle
    /\ ParseIdle
    /\ PropertyIdle
    /\ TimespanIdle
    /\ TimeZoneIdle
    /\ TreeIdle
    /\ RRuleLoopIdle
    /\ RepeatIdle
    /\ LocaliseIdle
    /\ MemoIdle
    /\ ObservanceIdle
    /\ LocalZoneIdle

(* First next() of Timeline.iterate(): explode, heapify, then the loop. *)
IterateFirst ==
    /\ tl_status = "new"
    /\ LET r == explode_recurring_components(children, tl_range)
       IN  IF r.err # "ok"
           THEN /\ tl_status' = r.err
                /\ UNCHANGED <<heap, yielded>>
           ELSE IF r.list = <<>>
           THEN /\ tl_status' = "done"
                /\ UNCHANGED <<heap, yielded>>
           ELSE \E i \in 1 .. Len(r.list) :
                    /\ IsHeapMin(r.list, i)
                    /\ yielded' = Append(yielded, r.list[i])
                    /\ heap' = RemoveAt(r.list, i)
                    /\ tl_status' = "iterating"
    /\ UNCHANGED <<children, tl_range, tl_setter, e_vars, p_vars, pp_vars, ts_vars, tz_vars, tr_vars, it_vars, rp_vars, lo_vars, mc_vars, ob_vars, env_vars>>

(* A later next(): heappop and yield, or the end of the loop. *)
IterateNext ==
    /\ tl_status = "iterating"
    /\ IF heap = <<>>
       THEN /\ tl_status' = "done"
            /\ UNCHANGED <<heap, yielded>>
       ELSE \E i \in 1 .. Len(heap) :
                /\ IsHeapMin(heap, i)
                /\ yielded' = Append(yielded, heap[i])
                /\ heap' = RemoveAt(heap, i)
                /\ UNCHANGED tl_status
    /\ UNCHANGED <<children, tl_range, tl_setter, e_vars, p_vars, pp_vars, ts_vars, tz_vars, tr_vars, it_vars, rp_vars, lo_vars, mc_vars, ob_vars, env_vars>>

(* The values given to the date setters *)
StartDates == {MaxStart + 1}

EndDates == {MaxT + 1}

(* timeline.start_date = value: the assignment, then                      *)
(* self.get_timespan.cache_clear(), which raises AttributeError because    *)
(* get_timespan is the wrapped_func of instance_lru_cache, a plain         *)
(* function without a cache_clear.  The assignment stays.  The setter      *)
(* does not look at the iteration: it can be called before it, during it,  *)
(* after its end and after an exception of it.                             *)
SetStartDate ==
    /\ \E value \in StartDates :
           tl_range' = [tl_range EXCEPT !.begin = value]
    /\ tl_setter' = "AttributeError"
    /\ UNCHANGED <<children, heap, yielded, tl_status, e_vars, p_vars, pp_vars, ts_vars, tz_vars, tr_vars, it_vars, rp_vars, lo_vars, mc_vars, ob_vars, env_vars>>

(* timeline.end_date = value: the assignment, then the same cache_clear *)
SetEndDate ==
    /\ \E value \in EndDates :
           tl_range' = [tl_range EXCEPT !.end = value]
    /\ tl_setter' = "AttributeError"
    /\ UNCHANGED <<children, heap, yielded, tl_status, e_vars, p_vars, pp_vars, ts_vars, tz_vars, tr_vars, it_vars, rp_vars, lo_vars, mc_vars, ob_vars, env_vars>>

NextTimeline == IterateFirst \/ IterateNext \/ SetStartDate \/ SetEndDate

SpecTimeline == InitTimeline /\ [][NextTimeline]_vars

(* A Timeline over the components of one UID and a range that begins at    *)
(* instant 0 (start_date = value moves the beginning).                     *)
InitTimelineOrder ==
    /\ children \in Calendars({"A"})
    /\ tl_range \in {r \in TimelineRanges : r.begin = 0}
    /\ heap = <<>>
    /\ yielded = <<>>
    /\ tl_status = "new"
    /\ tl_setter = "none"
    /\ ExpandIdle
    /\ ParseIdle
    /\ PropertyIdle
    /\ TimespanIdle
    /\ TimeZoneIdle
    /\ TreeIdle
    /\ RRuleLoopIdle
    /\ RepeatIdle
    /\ LocaliseIdle
    /\ MemoIdle
    /\ ObservanceIdle
    /\ LocalZoneIdle

SpecTimelineOrder == InitTimelineOrder /\ [][NextTimeline]_vars

(* The text handed to parse_lines_into_calendar. *)
InitParse ==
    /\ \E header \in Headers, child \in ChildNames :
           \E lb \in LineBreaksOf(child) : p_raw \in RawTexts(MaxBody, header, child, lb)
    /\ p_result = [err |-> "new"]
    /\ p_comp = 0
    /\ p_text = <<>>
    /\ p_status = "new"
    /\ ExpandIdle
    /\ TimelineIdle
    /\ PropertyIdle
    /\ TimespanIdle
    /\ TimeZoneIdle
    /\ TreeIdle
    /\ RRuleLoopIdle
    /\ RepeatIdle
    /\ LocaliseIdle
    /\ MemoIdle
    /\ ObservanceIdle
    /\ LocalZoneIdle

(* calendar = parse_lines_into_calendar(raw_text) *)
ParseLinesIntoCalendar ==
    /\ p_status = "new"
    /\ p_result' = parse_lines_into_calendar(p_raw)
    /\ p_status' = "parsed"
    /\ UNCHANGED <<p_raw, p_comp, p_text, e_vars, tl_vars, pp_vars, ts_vars, tz_vars, tr_vars, it_vars, rp_vars, lo_vars, mc_vars, ob_vars, env_vars>>

(* component.original_ical_text, for a component of the parsed tree *)
OriginalIcalText ==
    /\ p_status = "parsed"
    /\ p_result.err = "ok"
    /\ \E c \in 1 .. Len(p_result.comps) :
           /\ p_comp' = c
           /\ p_text' = original_ical_text(p_result, c)
    /\ p_status' = "text"
    /\ UNCHANGED <<p_raw, p_result, e_vars, tl_vars, pp_vars, ts_vars, tz_vars, tr_vars, it_vars, rp_vars, lo_vars, mc_vars, ob_vars, env_vars>>

NextParse == ParseLinesIntoCalendar \/ OriginalIcalText

SpecParse == InitParse /\ [][NextParse]_vars

(* The property line handed to parse_property of a VEvent. *)
InitProperty ==
    /\ pp_input \in PropertyInputs(MaxParams)
    /\ pp_prop = [err |-> "new"]
    /\ pp_got = [key |-> <<>>, isnone |-> TRUE, value |-> <<>>]
    /\ pp_status = "new"
    /\ ExpandIdle
    /\ TimelineIdle
    /\ ParseIdle
    /\ TimespanIdle
    /\ TimeZoneIdle
    /\ TreeIdle
    /\ RRuleLoopIdle
    /\ RepeatIdle
    /\ LocaliseIdle
    /\ MemoIdle
    /\ ObservanceIdle
    /\ LocalZoneIdle

(* property = v_event.parse_property(line) *)
ParseProperty ==
    /\ pp_status = "new"
    /\ pp_prop' = parse_property("VEvent", PropertyLine(pp_input))
    /\ pp_status' = "parsed"
    /\ UNCHANGED <<pp_input, pp_got, e_vars, tl_vars, p_vars, ts_vars, tz_vars, tr_vars, it_vars, rp_vars, lo_vars, mc_vars, ob_vars, env_vars>>

(* property.get_property_parameter(key) *)
GetPropertyParameter ==
    /\ pp_status = "parsed"
    /\ pp_prop.err = "ok"
    /\ \E key \in ParamKeys :
           LET r == get_property_parameter(pp_prop, <<key>>)
           IN  pp_got' = [key |-> <<key>>, isnone |-> r.isnone, value |-> r.value]
    /\ pp_status' = "got"
    /\ UNCHANGED <<pp_input, pp_prop, e_vars, tl_vars, p_vars, ts_vars, tz_vars, tr_vars, it_vars, rp_vars, lo_vars, mc_vars, ob_vars, env_vars>>

NextProperty == ParseProperty \/ GetPropertyParameter

SpecProperty == InitProperty /\ [][NextProperty]_vars

----------------------------------------------------------------------------
(* Properties of the expansion and of the Timeline. *)

InRange(t, r) == r.begin <= t /\ t < r.end

CountBegin(out, s) == Cardinality({i \in 1 .. Len(out) : out[i].begin = s})

(* C1: every timespan yielded by Timeline.iterate intersects the range     *)
(* (start_date, end_date) of the Timeline; a recurring VEVENT whose own    *)
(* DTSTART..DTEND is outside the range contributes only occurrences        *)
(* inside it.  (Stated for a Timeline whose dates were never set again,    *)
(* so that tl_range is the range the iteration ran with.)                  *)
C1_RangeClosure ==
    tl_setter = "none" =>
        \A i \in 1 .. Len(yielded) : intersects(tl_range, yielded[i])

(* C2: a calendar of one non-recurring VEVENT with DTSTART and DTEND       *)
(* inside the range and no RECURRENCE-ID anywhere yields exactly one pair, *)
(* the timespan (DTSTART, DTEND) with that event.  (The range is the one   *)
(* the Timeline was constructed with: no date was set again.)              *)
C2_IsSingleEvent ==
    /\ tl_setter = "none"
    /\ Len(children) = 1
    /\ ~children[1].rrule.present
    /\ children[1].rdate = <<>>
    /\ children[1].recurrence_id = NoTime
    /\ children[1].dtstart < children[1].dtend
    /\ tl_range.begin <= children[1].dtstart
    /\ children[1].dtend <= tl_range.end

C2_SingleEventYieldedOnce ==
    (C2_IsSingleEvent /\ tl_status # "new")
        => /\ tl_status \in {"iterating", "done"}
           /\ yielded = <<TimespanWithParent([orig |-> 1, recurring |-> FALSE],
                                             children[1].dtstart, children[1].dtend)>>

(* C3: expanding a component over a range with no known exclusions yields  *)
(* no occurrence whose start is an EXDATE of the component lying in the    *)
(* range, be that start the DTSTART, an RDATE or an RRULE instance.        *)
C3_ExdateDominance ==
    e_status = "ok"
        => \A t \in SetOfSeq(e_comp.exdate) :
               InRange(t, e_range) => CountBegin(e_out, t) = 0

(* C4: when an RDATE value and the RRULE of a component (of non-zero       *)
(* duration, no EXDATE at s) produce the same start s inside the range,    *)
(* the expansion has exactly one occurrence starting at s, never two.      *)
C4_RDateRRuleOnce ==
    e_status = "ok"
        => \A s \in Times :
               ( /\ InRange(s, e_range)
                 /\ Cardinality({i \in 1 .. Len(e_comp.rdate) : e_comp.rdate[i] = s}) = 1
                 /\ e_comp.rrule.present
                 /\ Truthy(computed_duration(e_comp))
                 /\ s \in SetOfSeq(RRuleFrom(e_comp.rrule, e_comp.dtstart, 1, e_range.end))
                 /\ s \notin SetOfSeq(e_comp.exdate) )
               => CountBegin(e_out, s) = 1

(* C5: for a base recurring component and a second component of the same   *)
(* UID with RECURRENCE-ID = s, the Timeline yields no occurrence of the    *)
(* base series starting at s and yields the overriding component once.     *)
(* (The range is the one the Timeline was constructed with.)               *)
C5_IsBaseAndOverride(b, o) ==
    /\ tl_setter = "none"
    /\ Len(children) = 2
    /\ {b, o} = {1, 2}
    /\ children[b].uid = children[o].uid
    /\ children[b].rrule.present /\ children[b].recurrence_id = NoTime
    /\ ~children[o].rrule.present /\ children[o].recurrence_id # NoTime
    /\ children[o].dtstart < children[o].dtend
    /\ InRange(children[o].dtstart, tl_range)

C5_OverrideDominance ==
    \A b, o \in 1 .. 2 :
        (C5_IsBaseAndOverride(b, o) /\ tl_status = "done")
            => /\ \A i \in 1 .. Len(yielded) :
                    yielded[i].parent.orig = b => yielded[i].begin # children[o].recurrence_id
               /\ Cardinality({i \in 1 .. Len(yielded) : yielded[i].parent.orig = o}) = 1

(* C6: Timeline.iterate yields its pairs in non-decreasing order of        *)
(* timespan.begin.                                                         *)
C6_ChronologicalOrder ==
    \A i, j \in 1 .. Len(yielded) : i < j => yielded[i].begin <= yielded[j].begin

(* An iteration that ran to its end with three or more pairs, whose        *)
(* exploded list was not in order of begin.                                *)
C6_Witness ==
    /\ tl_status = "done"
    /\ tl_setter = "none"
    /\ Len(yielded) >= 3
    /\ LET l == explode_recurring_components(children, tl_range).list
       IN  \E i, j \in 1 .. Len(l) : i < j /\ l[i].begin > l[j].begin

----------------------------------------------------------------------------
(* Properties of the parser. *)

DistinctKeys(params) ==
    \A i, j \in 1 .. Len(params) : params[i].key = params[j].key => i = j

(* C7: a property parsed from NAME;K1=V1;K2=V2:value retains every        *)
(* parameter: get_property_parameter(Ki) returns Vi for each i, for a     *)
(* known key and for an unknown one.                                       *)
C7_ParametersRetained ==
    (pp_status = "got" /\ DistinctKeys(pp_input.params)) =>
        \A i \in 1 .. Len(pp_input.params) :
            pp_input.params[i].key = pp_got.key[1] =>
                /\ ~pp_got.isnone
                /\ pp_got.value = pp_input.params[i].value

(* The unfolding the input contract describes: a line that begins with a  *)
(* space or a tab is appended, without that character, to the line before. *)
RECURSIVE Unfold(_, _, _)
Unfold(lines, i, acc) ==
    IF i > Len(lines) THEN acc
    ELSE IF acc # <<>> /\ (startswith(lines[i], <<SPACE>>) \/ startswith(lines[i], <<TAB>>))
    THEN Unfold(lines, i + 1,
                [acc EXCEPT ![Len(acc)] = @ \o DropFirst(lines[i], 1)])
    ELSE Unfold(lines, i + 1, Append(acc, lines[i]))

(* What a parsed tree holds, without the line numbers. *)
Content(calendar) ==
    [c \in 1 .. Len(calendar.comps) |->
        [cls |-> calendar.comps[c].cls, name |-> calendar.comps[c].name,
         parent |-> calendar.comps[c].parent, properties |-> calendar.comps[c].properties]]

HasFold(lines) ==
    \E i \in 2 .. Len(lines) :
        /\ startswith(lines[i], <<SPACE>>) \/ startswith(lines[i], <<TAB>>)
        /\ ~startswith(lines[i - 1], BEGIN_PREFIX)
        /\ ~startswith(lines[i - 1], END_PREFIX)

(* C8: a physical line that begins with a space or a tab continues the    *)
(* logical line before it: a text whose unfolded lines parse is parsed,   *)
(* and to the same tree, with each folded value concatenated.              *)
C8_FoldedLinesConcatenated ==
    (p_status = "parsed" /\ HasFold(raw_lines(p_raw))) =>
        LET unfolded == parse_lines(Unfold(raw_lines(p_raw), 1, <<>>))
        IN  unfolded.err = "ok" =>
                /\ p_result.err = "ok"
                /\ Content(p_result) = Content(unfolded)

(* The physical lines of a text with their positions in it: the content   *)
(* of line i is raw[first .. last], without the "\n" that ends it.         *)
RECURSIVE PhysicalRanges(_, _, _)
PhysicalRanges(raw, i, first) ==
    IF i > Len(raw) THEN <<[first |-> first, last |-> Len(raw)]>>
    ELSE IF raw[i] = LF
    THEN <<[first |-> first, last |-> i - 1]>> \o PhysicalRanges(raw, i + 1, i + 1)
    ELSE PhysicalRanges(raw, i + 1, first)

LineAt(raw, rg) == strip_line_break(SubSeq(raw, rg.first, rg.last))

(* The indices of the BEGIN lines, in order. *)
RECURSIVE BeginLines(_, _, _)
BeginLines(raw, ranges, i) ==
    IF i > Len(ranges) THEN <<>>
    ELSE (IF startswith(LineAt(raw, ranges[i]), BEGIN_PREFIX) THEN <<i>> ELSE <<>>)
         \o BeginLines(raw, ranges, i + 1)

(* The END line that closes the BEGIN line the scan started at, by depth; *)
(* 0 if there is none.                                                     *)
RECURSIVE MatchingEnd(_, _, _, _)
MatchingEnd(raw, ranges, i, depth) ==
    IF i > Len(ranges) THEN 0
    ELSE IF startswith(LineAt(raw, ranges[i]), BEGIN_PREFIX)
    THEN MatchingEnd(raw, ranges, i + 1, depth + 1)
    ELSE IF startswith(LineAt(raw, ranges[i]), END_PREFIX)
    THEN IF depth = 1 THEN i ELSE MatchingEnd(raw, ranges, i + 1, depth - 1)
    ELSE MatchingEnd(raw, ranges, i + 1, depth)

(* The input text from the BEGIN line of the c-th component through its   *)
(* matching END line, without the line break that ends the END line.       *)
InputSlice(raw, c) ==
    LET ranges == PhysicalRanges(raw, 1, 1)
        b == BeginLines(raw, ranges, 1)[c]
        e == MatchingEnd(raw, ranges, b, 0)
        last == IF ranges[e].last >= ranges[e].first /\ raw[ranges[e].last] = CR
                THEN ranges[e].last - 1 ELSE ranges[e].last
    IN  SubSeq(raw, ranges[b].first, last)

PlainLF(text) ==
    /\ \A i \in 1 .. Len(text) : text[i] # CR
    /\ \A i \in 1 .. Len(split(text, LF)) : split(text, LF)[i] # <<>>

(* C9, as the specification states it: original_ical_text of a component  *)
(* equals the input text from its BEGIN line through its matching END     *)
(* line, byte for byte.                                                    *)
C9_ByteForByte ==
    p_status = "text" => p_text = InputSlice(p_raw, p_comp)

(* C9, amended: original_ical_text of a component is the non-empty lines  *)
(* of the input from its BEGIN line through its matching END line, each   *)
(* without its carriage return, joined by "\n"; it equals the input slice *)
(* byte for byte when the slice has bare-LF line breaks and no empty line. *)
C9_OriginalLinesJoinedByLF ==
    p_status = "text" =>
        LET slice == InputSlice(p_raw, p_comp)
        IN  /\ p_text = join(LF, raw_lines(slice))
            /\ PlainLF(slice) => p_text = slice

(* A nested component with a folded property line, in a CRLF text, was    *)
(* parsed and its original text read.                                      *)
C9_Witness ==
    /\ p_status = "text"
    /\ p_comp = 2
    /\ p_result.comps[2].parent = 1
    /\ p_result.comps[2]._parse_line_end - p_result.comps[2]._parse_line_start = 4
    /\ Len(p_result.comps[2].properties) = 1
    /\ \E i \in 1 .. Len(p_text) : p_text[i] = SPACE
    /\ \E i \in 1 .. Len(p_raw) : p_raw[i] = CR

(* The framing of a text, read line by line against a stack of the open   *)
(* components: the first END line that does not close the innermost open  *)
(* component, else the innermost component still open at the end.          *)
RECURSIVE FramingDefect(_, _, _)
FramingDefect(lines, i, stack) ==
    IF i > Len(lines)
    THEN IF stack = <<>> THEN [kind |-> "none"]
         ELSE [kind |-> "unclosed", component |-> stack[Len(stack)]]
    ELSE IF startswith(lines[i], BEGIN_PREFIX)
    THEN FramingDefect(lines, i + 1, Append(stack, DropFirst(lines[i], Len(BEGIN_PREFIX))))
    ELSE IF startswith(lines[i], END_PREFIX)
    THEN IF stack = <<>> \/ stack[Len(stack)] # DropFirst(lines[i], Len(END_PREFIX))
         THEN [kind |-> "mismatched", line |-> i]
         ELSE FramingDefect(lines, i + 1, SubSeq(stack, 1, Len(stack) - 1))
    ELSE FramingDefect(lines, i + 1, stack)

(* A text of framing lines and whole property lines only. *)
OnlyFraming(lines) ==
    \A i \in 1 .. Len(lines) :
        \/ startswith(lines[i], BEGIN_PREFIX)
        \/ startswith(lines[i], END_PREFIX)
        \/ lines[i] \in {<<"DESCRIPTION", ":", "a">>, <<"PRODID", ":", "p">>, <<"VERSION", ":", "2">>}

(* C10: parsing returns a VCalendar only if every BEGIN:<name> is closed  *)
(* by an END:<name>; a mismatched END is rejected with an error that      *)
(* reports the offending line number, a component open at the end of the  *)
(* input with an unterminated-component error naming component and line.   *)
C10_FramingErrors ==
    (p_status = "parsed" /\ OnlyFraming(raw_lines(p_raw))) =>
        LET defect == FramingDefect(raw_lines(p_raw), 1, <<>>)
        IN  /\ p_result.err = "ok" => defect.kind = "none"
            /\ defect.kind = "mismatched" =>
                   /\ p_result.err # "ok"
                   /\ p_result.line_no = defect.line
            /\ defect.kind = "unclosed" =>
                   /\ p_result.err = "UnterminatedComponent"
                   /\ p_result.component = defect.component
                   /\ p_result.line_no # NoLine
----------------------------------------------------------------------------
(* RRULE occurrences that touch the end of the range *)

(* t is an instance of the RRULE of the expanded component, the one at     *)
(* DTSTART included, within its COUNT and UNTIL                            *)
IsRRuleInstance(t) ==
    /\ e_comp.rrule.present
    /\ \E k \in 0 .. MaxT + 1 :
          /\ t = e_comp.dtstart + k * e_comp.rrule.interval
          /\ (e_comp.rrule.count # NoCount => k + 1 <= e_comp.rrule.count)
          /\ (e_comp.rrule.until # NoTime => t <= e_comp.rrule.until)

(* t is the k-th instance (k >= 2) of the RRULE of the expanded component, *)
(* within its COUNT and UNTIL                                              *)
IsLaterRRuleInstance(t) ==
    /\ e_comp.rrule.present
    /\ \E k \in 1 .. MaxT + 1 :
          /\ t = e_comp.dtstart + k * e_comp.rrule.interval
          /\ (e_comp.rrule.count # NoCount => k + 1 <= e_comp.rrule.count)
          /\ (e_comp.rrule.until # NoTime => t <= e_comp.rrule.until)

(* The RRULE of the expanded component has an occurrence that starts       *)
(* exactly at the end of the requested range: an instance that is not an   *)
(* EXDATE.                                                                 *)
C11_OccurrenceStartsAtRangeEnd ==
    /\ e_status # "new"
    /\ IsRRuleInstance(e_range.end)
    /\ e_range.end \notin SetOfSeq(e_comp.exdate)

(* C11: an RRULE occurrence whose start equals the end of the requested    *)
(* range is returned by expand_component_in_range: the expansion ends      *)
(* without an exception and a timespan that begins at the range end is     *)
(* among those it yields.                                                  *)
C11_TouchingOccurrenceReturned ==
    C11_OccurrenceStartsAtRangeEnd =>
        /\ e_status = "ok"
        /\ \E i \in 1 .. Len(e_out) : e_out[i].begin = e_range.end

----------------------------------------------------------------------------
(* Timespan.intersects on its own *)

(* Timespans over the instants of the model, with begin <= end *)
Timespans == {t \in [begin : 0 .. MaxT, end : 0 .. MaxT] : t.begin <= t.end}

InitTimespan ==
    /\ ts_self \in Timespans
    /\ ts_other \in Timespans
    /\ ts_result = FALSE
    /\ ts_status = "new"
    /\ ExpandIdle
    /\ TimelineIdle
    /\ ParseIdle
    /\ PropertyIdle
    /\ TimeZoneIdle
    /\ TreeIdle
    /\ RRuleLoopIdle
    /\ RepeatIdle
    /\ LocaliseIdle
    /\ MemoIdle
    /\ ObservanceIdle
    /\ LocalZoneIdle

(* ts_self.intersects(ts_other) *)
Intersects ==
    /\ ts_status = "new"
    /\ ts_result' = intersects(ts_self, ts_other)
    /\ ts_status' = "done"
    /\ UNCHANGED <<ts_self, ts_other, e_vars, tl_vars, p_vars, pp_vars, tz_vars, tr_vars, it_vars, rp_vars, lo_vars, mc_vars, ob_vars, env_vars>>

NextTimespan == Intersects

SpecTimespan == InitTimespan /\ [][NextTimespan]_vars

IsInstant(t) == t.begin = t.end

(* The begin of t lies in the half-open [u.begin, u.end) *)
BeginWithin(t, u) == u.begin <= t.begin /\ t.begin < u.end

(* C12 as stated: intersects is the overlap of half-open spans; spans     *)
(* that merely touch at an endpoint do not intersect.                     *)
C12_HalfOpen ==
    ts_status = "done" =>
        (ts_result <=> (ts_self.begin < ts_other.end /\ ts_other.begin < ts_self.end))

(* C12, amended: two timespans of positive length intersect if and only   *)
(* if a.begin <= b.end and b.begin <= a.end, so spans that touch at an    *)
(* endpoint do intersect; a zero-length timespan intersects a timespan of *)
(* positive length if and only if its instant lies in the half-open       *)
(* [begin, end) of that timespan; two zero-length timespans never         *)
(* intersect.                                                             *)
C12_TouchingSpansIntersect ==
    ts_status = "done" =>
        (ts_result <=>
            IF ~IsInstant(ts_self) /\ ~IsInstant(ts_other)
            THEN ts_self.begin <= ts_other.end /\ ts_other.begin <= ts_self.end
            ELSE IF IsInstant(ts_self) /\ IsInstant(ts_other) THEN FALSE
            ELSE IF IsInstant(ts_self) THEN BeginWithin(ts_self, ts_other)
            ELSE BeginWithin(ts_other, ts_self))

(* Two spans of positive length that touch at an endpoint were compared   *)
(* and found to intersect.                                                *)
C12_Witness ==
    /\ ts_status = "done"
    /\ ~IsInstant(ts_self) /\ ~IsInstant(ts_other)
    /\ ts_self.end = ts_other.begin
    /\ ts_result
----------------------------------------------------------------------------
(* The timespan of a component without DTEND and DURATION *)

(* C13: a component with DTSTART but neither DTEND nor DURATION has a      *)
(* derived duration of zero: reading its timespan (the first thing the     *)
(* expansion does, which yields it) returns (start, start).                *)
C13_ZeroLengthTimespan ==
    (/\ e_status \notin {"new", "idle"}
     /\ e_comp.dtstart # NoTime
     /\ e_comp.dtend = NoTime
     /\ e_comp.duration = NoDur)
    => /\ e_status = "ok"
       /\ Len(e_out) >= 1
       /\ e_out[1].begin = e_comp.dtstart
       /\ e_out[1].end = e_comp.dtstart
----------------------------------------------------------------------------
(* The expansion of a VJOURNAL *)

(* The VJOURNALs expand_component_in_range is called on: a DTSTART, no    *)
(* DTEND, no DURATION                                                      *)
Journals(starts) == {c \in ExpandEvents(starts) : c.dtend = NoTime /\ c.duration = NoDur}

InitJournal ==
    /\ e_comp \in Journals(0 .. MaxStart)
    /\ e_range \in Ranges
    /\ e_ste = <<>>
    /\ e_out = <<>>
    /\ e_status = "new"
    /\ TimelineIdle
    /\ ParseIdle
    /\ PropertyIdle
    /\ TimespanIdle
    /\ TimeZoneIdle
    /\ TreeIdle
    /\ RRuleLoopIdle
    /\ RepeatIdle
    /\ LocaliseIdle
    /\ MemoIdle
    /\ ObservanceIdle
    /\ LocalZoneIdle

(* list(journal.expand_component_in_range(return_range, starts_to_exclude)) *)
ExpandJournal ==
    /\ e_status = "new"
    /\ LET r == vj_expand_component_in_range(e_comp, 1, e_range, [isnone |-> FALSE, l |-> e_ste])
       IN  /\ e_status' = r.err
           /\ e_out' = IF r.err = "ok" THEN r.out ELSE <<>>
           /\ e_ste' = r.ste.l
    /\ UNCHANGED <<e_comp, e_range, tl_vars, p_vars, pp_vars, ts_vars, tz_vars, tr_vars, it_vars, rp_vars, lo_vars, mc_vars, ob_vars, env_vars>>

NextJournal == ExpandJournal

SpecJournal == InitJournal /\ [][NextJournal]_vars

(* C14: a VJOURNAL with DTSTART and an RRULE is expanded like any other    *)
(* recurring component: every RRULE instance after DTSTART that lies       *)
(* inside the range and is not an EXDATE is yielded as a zero-length       *)
(* recurring occurrence (end = start), not only the base journal entry.    *)
C14_JournalOccurrencesYielded ==
    e_status \notin {"new", "idle"} =>
        \A t \in e_range.begin .. e_range.end - 1 :
            (IsLaterRRuleInstance(t) /\ t \notin SetOfSeq(e_comp.exdate)) =>
                \E i \in 1 .. Len(e_out) :
                    /\ e_out[i].parent.recurring
                    /\ e_out[i].begin = t
                    /\ e_out[i].end = t
----------------------------------------------------------------------------
(* The expansion of a VEVENT whose RDATE holds PERIOD values *)

(* A period: a start and a later end *)
Periods == {p \in [begin : 0 .. MaxT, end : 1 .. MaxT + 1] : p.begin < p.end}

PeriodRRules == {NoRRule, [present |-> TRUE, interval |-> 1, count |-> NoCount, until |-> NoTime]}

(* VEVENTs with one to MaxPeriods PERIOD values, and at most one DATE-TIME *)
(* RDATE value and one EXDATE value                                        *)
PeriodEvents(starts) ==
    UNION {{VEvent("A", s, eo, rr, rd, ex, NoTime) @@ [rdate_period |-> ps] :
                eo \in EndOptions(s), rr \in PeriodRRules,
                rd \in SeqsUpTo(Times, 1), ex \in SeqsUpTo(Times, 1),
                ps \in SeqsUpTo(Periods, MaxPeriods) \ {<<>>}} :
           s \in starts}

InitPeriod ==
    /\ e_comp \in PeriodEvents(0 .. MaxStart)
    /\ e_range \in Ranges
    /\ e_ste = <<>>
    /\ e_out = <<>>
    /\ e_status = "new"
    /\ TimelineIdle
    /\ ParseIdle
    /\ PropertyIdle
    /\ TimespanIdle
    /\ TimeZoneIdle
    /\ TreeIdle
    /\ RRuleLoopIdle
    /\ RepeatIdle
    /\ LocaliseIdle
    /\ MemoIdle
    /\ ObservanceIdle
    /\ LocalZoneIdle

(* list(event.expand_component_in_range(return_range, starts_to_exclude)) *)
ExpandPeriod ==
    /\ e_status = "new"
    /\ LET r == expand_component_in_range_period(e_comp, 1, e_range, [isnone |-> FALSE, l |-> e_ste])
       IN  /\ e_status' = r.err
           /\ e_out' = IF r.err = "ok" THEN r.out ELSE <<>>
           /\ e_ste' = r.ste.l
    /\ UNCHANGED <<e_comp, e_range, tl_vars, p_vars, pp_vars, ts_vars, tz_vars, tr_vars, it_vars, rp_vars, lo_vars, mc_vars, ob_vars, env_vars>>

NextPeriod == ExpandPeriod

SpecPeriod == InitPeriod /\ [][NextPeriod]_vars

(* C15: for an RDATE entry of VALUE=PERIOD whose span intersects the       *)
(* range (of a component with a start and a duration, the period not       *)
(* starting at DTSTART or at an EXDATE), the expansion yields the          *)
(* occurrence (period start, period end): the period's own length, not     *)
(* the component's duration.                                               *)
C15_PeriodOccurrenceYielded ==
    (/\ e_status \notin {"new", "idle"}
     /\ e_comp.dtstart # NoTime
     /\ Truthy(computed_duration(e_comp)))
    => \A j \in 1 .. Len(e_comp.rdate_period) :
          LET p == e_comp.rdate_period[j]
          IN  (/\ intersects(e_range, p)
               /\ p.begin # e_comp.dtstart
               /\ p.begin \notin SetOfSeq(e_comp.exdate))
              => \E i \in 1 .. Len(e_out) :
                    /\ e_out[i].parent.recurring
                    /\ e_out[i].begin = p.begin
                    /\ e_out[i].end = p.end
----------------------------------------------------------------------------
(* max_recurring_timespan against the expansion *)

(* C16: for every recurring component (an RRULE or an RDATE, a start and   *)
(* a non-zero duration), max_recurring_timespan covers every occurrence    *)
(* the expansion yields: it is not None, its begin is at or before each    *)
(* occurrence's begin and its end at or after each occurrence's end; so    *)
(* whenever an occurrence intersects the range, max_recurring_timespan     *)
(* intersects the range too and the pre-filter does not skip the           *)
(* component.                                                              *)
C16_MaxRecurringTimespanCovers ==
    (/\ e_status = "ok"
     /\ (e_comp.rrule.present \/ e_comp.rdate # <<>>)
     /\ e_comp.dtstart # NoTime
     /\ Truthy(computed_duration(e_comp)))
    => LET m == max_recurring_timespan(e_comp)
       IN  /\ ~m.isnone
           /\ \A i \in 1 .. Len(e_out) :
                 /\ m.ts.begin <= e_out[i].begin
                 /\ e_out[i].end <= m.ts.end
                 /\ intersects(e_out[i], e_range) => intersects(m.ts, e_range)
----------------------------------------------------------------------------
(* The localisation of a floating datetime by a VTIMEZONE *)

(* A STANDARD observance goes from the summer offset 2 to the winter       *)
(* offset 1, a DAYLIGHT observance from 1 to 2.                            *)
StandardObservances == [dtstart : 0 .. MaxTzStart, tzoffsetfrom : {2}, tzoffsetto : {1}]

DaylightObservances == [dtstart : 0 .. MaxTzStart, tzoffsetfrom : {1}, tzoffsetto : {2}]

InitTimeZone ==
    /\ tz_standardc \in StandardObservances
    /\ tz_daylightc \in DaylightObservances
    /\ tz_standardc.dtstart # tz_daylightc.dtstart
    /\ tz_dt \in 0 .. TzHorizon
    /\ tz_result = [err |-> "ok", aware |-> FALSE, offset |-> 0]
    /\ tz_status = "new"
    /\ ExpandIdle
    /\ TimelineIdle
    /\ ParseIdle
    /\ PropertyIdle
    /\ TimespanIdle
    /\ TreeIdle
    /\ RRuleLoopIdle
    /\ RepeatIdle
    /\ LocaliseIdle
    /\ MemoIdle
    /\ ObservanceIdle
    /\ local_timezone \in LocalZones

(* v_timezone.convert_naive_datetime_to_aware(dt) *)
ConvertNaiveDatetimeToAware ==
    /\ tz_status = "new"
    /\ tz_result' = convert_naive_datetime_to_aware(tz_standardc, tz_daylightc, tz_dt, local_timezone)
    /\ tz_status' = IF tz_result'.err = "ok" THEN "done" ELSE tz_result'.err
    /\ UNCHANGED <<tz_standardc, tz_daylightc, tz_dt, e_vars, tl_vars, p_vars, pp_vars, ts_vars, tr_vars, it_vars, rp_vars, lo_vars, mc_vars, ob_vars, env_vars>>

NextTimeZone == ConvertNaiveDatetimeToAware

SpecTimeZone == InitTimeZone /\ [][NextTimeZone]_vars

(* The ordered transition table of the VTIMEZONE of the state *)
TransitionTable == get_ordered_timezone_overview(tz_standardc, tz_daylightc, TzHorizon, local_timezone).vals

(* The indices of the transitions whose wall-clock time precedes tz_dt *)
Preceding == {i \in 1 .. Len(TransitionTable) : TransitionTable[i].at < tz_dt}

(* C17: localisation of a floating datetime applies the TZOFFSETTO of the  *)
(* last transition of the ordered table whose wall-clock time precedes dt, *)
(* and the TZOFFSETFROM of the first transition when dt precedes every     *)
(* transition.                                                             *)
C17_LastPrecedingTransition ==
    (tz_status = "done" /\ TransitionTable # <<>>) =>
        /\ Preceding # {} =>
              LET last == CHOOSE i \in Preceding : \A j \in Preceding : j <= i
              IN  /\ tz_result.aware
                  /\ tz_result.offset = TransitionTable[last].period.tzoffsetto
        /\ (\A i \in 1 .. Len(TransitionTable) : tz_dt < TransitionTable[i].at) =>
              /\ tz_result.aware
              /\ tz_result.offset = TransitionTable[1].period.tzoffsetfrom
----------------------------------------------------------------------------
(* Component trees built through the constructors, with-blocks and        *)
(* add_child                                                               *)

ComponentNames == {"X-COMP"}

(* The root, constructed outside any with-block, with its PRODID set and   *)
(* with or without its required VERSION (the calendar_instance of          *)
(* tests/conftest.py has none)                                             *)
RootCalendar(has_version) == [cls |-> "VCalendar", name |-> "VCALENDAR", parent |-> 0, extra |-> <<>>, props |-> <<>>, has_prodid |-> TRUE, has_version |-> has_version]

InitTree ==
    /\ \E has_version \in BOOLEAN : tr_comps = <<RootCalendar(has_version)>>
    /\ tr_props = <<>>
    /\ tr_context = [current |-> 0, previous |-> <<>>]
    /\ tr_with = <<>>
    /\ tr_last = [op |-> "new", err |-> "ok", explicit |-> 0, id |-> 0]
    /\ tr_calls = 0
    /\ tr_parent_setter \in BOOLEAN
    /\ ExpandIdle
    /\ TimelineIdle
    /\ ParseIdle
    /\ PropertyIdle
    /\ TimespanIdle
    /\ TimeZoneIdle
    /\ RRuleLoopIdle
    /\ RepeatIdle
    /\ LocaliseIdle
    /\ MemoIdle
    /\ ObservanceIdle
    /\ LocalZoneIdle

(* with component: -- Component.__enter__ *)
EnterWith ==
    /\ Len(tr_with) < MaxDepth
    /\ \E c \in 1 .. Len(tr_comps) :
          /\ tr_context' = push_context_managed_component(tr_context, c)
          /\ tr_with' = Append(tr_with, c)
          /\ tr_last' = [op |-> "enter", err |-> "ok", explicit |-> 0, id |-> c]
    /\ UNCHANGED <<tr_comps, tr_props, tr_calls, tr_parent_setter, e_vars, tl_vars, p_vars, pp_vars, ts_vars, tz_vars, it_vars, rp_vars, lo_vars, mc_vars, ob_vars, env_vars>>

(* the end of the innermost with-block -- Component.__exit__ *)
ExitWith ==
    /\ tr_with # <<>>
    /\ tr_context' = pop_context_managed_component(tr_context)
    /\ tr_with' = SubSeq(tr_with, 1, Len(tr_with) - 1)
    /\ tr_last' = [op |-> "exit", err |-> "ok", explicit |-> 0, id |-> tr_with[Len(tr_with)]]
    /\ UNCHANGED <<tr_comps, tr_props, tr_calls, tr_parent_setter, e_vars, tl_vars, p_vars, pp_vars, ts_vars, tz_vars, it_vars, rp_vars, lo_vars, mc_vars, ob_vars, env_vars>>

(* Component(name, parent), parent None (0) or a component *)
NewComponentObject ==
    /\ Len(tr_comps) < MaxComps
    /\ \E name \in ComponentNames, parent \in 0 .. Len(tr_comps) :
          LET r == Component__init__(tr_comps, tr_context, name, parent)
          IN  /\ tr_comps' = r.comps
              /\ tr_last' = [op |-> "component", err |-> r.err, explicit |-> parent, id |-> r.id]
    /\ UNCHANGED <<tr_props, tr_context, tr_with, tr_calls, tr_parent_setter, e_vars, tl_vars, p_vars, pp_vars, ts_vars, tz_vars, it_vars, rp_vars, lo_vars, mc_vars, ob_vars, env_vars>>

(* Property(name=..., value=..., parent=parent), parent None (0) or a component *)
NewPropertyObject ==
    /\ Len(tr_props) < MaxProps
    /\ \E parent \in 0 .. Len(tr_comps) :
          LET r == Property__init__(tr_comps, tr_props, tr_context, parent)
          IN  /\ tr_comps' = r.comps
              /\ tr_props' = r.props
              /\ tr_last' = [op |-> "property", err |-> "ok", explicit |-> parent, id |-> r.id]
    /\ UNCHANGED <<tr_context, tr_with, tr_calls, tr_parent_setter, e_vars, tl_vars, p_vars, pp_vars, ts_vars, tz_vars, it_vars, rp_vars, lo_vars, mc_vars, ob_vars, env_vars>>

(* The number of registered children, over all components *)
RECURSIVE TotalChildren(_, _)
TotalChildren(comps, i) ==
    IF i > Len(comps) THEN 0 ELSE Len(children_of(comps[i])) + TotalChildren(comps, i + 1)

(* self.add_child(child), while fewer than MaxComps children are registered *)
AddChild ==
    /\ tr_calls < MaxCalls
    /\ TotalChildren(tr_comps, 1) < MaxComps
    /\ \E self \in 1 .. Len(tr_comps), child \in 1 .. Len(tr_comps) :
          /\ LET r == add_child(tr_comps, self, child, tr_parent_setter)
             IN  /\ tr_comps' = r.comps
                 /\ tr_last' = [op |-> "add_child", err |-> r.err, explicit |-> 0, id |-> 0]
    /\ tr_calls' = tr_calls + 1
    /\ UNCHANGED <<tr_props, tr_context, tr_with, tr_parent_setter, e_vars, tl_vars, p_vars, pp_vars, ts_vars, tz_vars, it_vars, rp_vars, lo_vars, mc_vars, ob_vars, env_vars>>

(* The number of properties filed, over all components *)
RECURSIVE TotalProperties(_, _)
TotalProperties(comps, i) ==
    IF i > Len(comps) THEN 0 ELSE Len(comps[i].props) + TotalProperties(comps, i + 1)

(* self.set_property(property_instance) of a property that exists, while   *)
(* no more than MaxProps properties are filed                              *)
ComponentSetProperty ==
    /\ tr_calls < MaxCalls
    /\ TotalProperties(tr_comps, 1) <= MaxProps
    /\ \E self \in 1 .. Len(tr_comps), property_instance \in 1 .. Len(tr_props) :
          /\ tr_comps' = Component_set_property(tr_comps, self, property_instance)
          /\ tr_last' = [op |-> "set_property", err |-> "ok", explicit |-> 0, id |-> 0]
    /\ tr_calls' = tr_calls + 1
    /\ UNCHANGED <<tr_props, tr_context, tr_with, tr_parent_setter, e_vars, tl_vars, p_vars, pp_vars, ts_vars, tz_vars, it_vars, rp_vars, lo_vars, mc_vars, ob_vars, env_vars>>

(* self.parse_property(line) *)
ComponentParseProperty ==
    /\ Len(tr_props) < MaxProps
    /\ \E self \in 1 .. Len(tr_comps) :
          LET r == Component_parse_property(tr_comps, tr_props, tr_context, self)
          IN  /\ tr_comps' = r.comps
              /\ tr_props' = r.props
              /\ tr_last' = [op |-> "parse_property", err |-> "ok", explicit |-> self, id |-> r.id]
    /\ UNCHANGED <<tr_context, tr_with, tr_calls, tr_parent_setter, e_vars, tl_vars, p_vars, pp_vars, ts_vars, tz_vars, it_vars, rp_vars, lo_vars, mc_vars, ob_vars, env_vars>>

(* The values handed to as_parent: a component, a property, or a list of   *)
(* two objects that ends with a property                                   *)
ParentItems(comps, props) ==
    {[kind |-> "component", id |-> c] : c \in 1 .. Len(comps)}
    \cup {[kind |-> "property", id |-> p] : p \in 1 .. Len(props)}

ParentValues(comps, props) ==
    {<<x>> : x \in ParentItems(comps, props)}
    \cup {<<x, y>> : x \in ParentItems(comps, props),
                      y \in {z \in ParentItems(comps, props) : z.kind = "property"}}

(* self.as_parent(value) *)
AsParent ==
    /\ tr_calls < MaxCalls
    /\ \E self \in 1 .. Len(tr_comps), value \in ParentValues(tr_comps, tr_props) :
          LET r == as_parent(tr_comps, tr_props, self, value, 1, tr_parent_setter)
          IN  /\ tr_comps' = r.comps
              /\ tr_props' = r.props
              /\ tr_last' = [op |-> "as_parent", err |-> r.err, explicit |-> 0, id |-> 0]
    /\ tr_calls' = tr_calls + 1
    /\ UNCHANGED <<tr_context, tr_with, tr_parent_setter, e_vars, tl_vars, p_vars, pp_vars, ts_vars, tz_vars, it_vars, rp_vars, lo_vars, mc_vars, ob_vars, env_vars>>

(* calendar.prodid = value, on the root VCALENDAR *)
SetProdid ==
    /\ tr_calls < MaxCalls
    /\ \E self \in {c \in 1 .. Len(tr_comps) : tr_comps[c].cls = "VCalendar"}, value_is_prodid \in BOOLEAN :
          /\ tr_comps' = VCalendar_set_prodid(tr_comps, self, value_is_prodid)
          /\ tr_last' = [op |-> "set_prodid", err |-> "ok", explicit |-> 0, id |-> 0]
    /\ tr_calls' = tr_calls + 1
    /\ UNCHANGED <<tr_props, tr_context, tr_with, tr_parent_setter, e_vars, tl_vars, p_vars, pp_vars, ts_vars, tz_vars, it_vars, rp_vars, lo_vars, mc_vars, ob_vars, env_vars>>

(* calendar.version = value, on the root VCALENDAR *)
SetVersion ==
    /\ tr_calls < MaxCalls
    /\ \E self \in {c \in 1 .. Len(tr_comps) : tr_comps[c].cls = "VCalendar"}, value_is_version \in BOOLEAN :
          /\ tr_comps' = VCalendar_set_version(tr_comps, self, value_is_version)
          /\ tr_last' = [op |-> "set_version", err |-> "ok", explicit |-> 0, id |-> 0]
    /\ tr_calls' = tr_calls + 1
    /\ UNCHANGED <<tr_props, tr_context, tr_with, tr_parent_setter, e_vars, tl_vars, p_vars, pp_vars, ts_vars, tz_vars, it_vars, rp_vars, lo_vars, mc_vars, ob_vars, env_vars>>

NextTree == EnterWith \/ ExitWith \/ NewComponentObject \/ NewPropertyObject \/ AddChild \/ ComponentSetProperty \/ ComponentParseProperty \/ AsParent \/ SetProdid \/ SetVersion

SpecTree == InitTree /\ [][NextTree]_vars

(* Construction only, inside and outside with-blocks: the constructors and *)
(* parse_property, without the calls that file an existing object again    *)
NextContext == EnterWith \/ ExitWith \/ NewComponentObject \/ NewPropertyObject \/ ComponentParseProperty

(* None of these calls reaches the assignment of a parent in               *)
(* _set_self_as_parent_for_ical_component, so what ICalBaseClass.parent is *)
(* makes no difference to them: the construction is followed for the class *)
(* with the setter                                                         *)
InitContext == InitTree /\ tr_parent_setter

SpecContext == InitContext /\ [][NextContext]_vars
----------------------------------------------------------------------------
(* Parents of the objects constructed inside with-blocks *)

(* The component of the innermost open with-block, 0 outside every block *)
Innermost == IF tr_with = <<>> THEN 0 ELSE tr_with[Len(tr_with)]

(* C18: the component of the innermost open with-block is the current      *)
(* component of the context, before and after every enter and exit (none   *)
(* outside every block); a component or property constructed without an    *)
(* explicit parent inside a with-block has that component as its parent    *)
(* and is registered in it (among its children, or its properties).        *)
C18_ContextParent ==
    /\ get_current_component(tr_context) = Innermost
    /\ (tr_last.op = "component" /\ tr_last.explicit = 0 /\ Innermost # 0) =>
          /\ tr_last.err = "ok"
          /\ tr_comps[tr_last.id].parent = Innermost
          /\ tr_last.id \in SetOfSeq(children_of(tr_comps[Innermost]))
    /\ (tr_last.op = "property" /\ tr_last.explicit = 0 /\ Innermost # 0) =>
          /\ tr_props[tr_last.id].parent = Innermost
          /\ tr_last.id \in SetOfSeq(tr_comps[Innermost].props)

(* A component was constructed without a parent inside two nested blocks   *)
(* of different components and belongs to the inner one.                   *)
C18_Witness ==
    /\ tr_last.op = "component" /\ tr_last.explicit = 0 /\ tr_last.err = "ok"
    /\ Len(tr_with) = 2
    /\ tr_with[1] # tr_with[2]
    /\ tr_comps[tr_last.id].parent = tr_with[2]
    /\ tr_last.id \in SetOfSeq(children_of(tr_comps[tr_with[2]]))

(* The component reached from c after n parent links (0 when the links end) *)
RECURSIVE AncestorAt(_, _)
AncestorAt(c, n) ==
    IF n = 0 \/ c = 0 THEN c ELSE AncestorAt(tr_comps[c].parent, n - 1)

(* C19: after any sequence of constructions and add_child calls, every     *)
(* component other than the root VCALENDAR has a parent, the root has      *)
(* none, and the parent links from any component reach the root in a       *)
(* finite number of steps (no cycle).                                      *)
C19_ParentLinksReachRoot ==
    /\ tr_comps # <<>> => tr_comps[1].parent = 0
    /\ \A c \in 2 .. Len(tr_comps) :
          /\ tr_comps[c].parent # 0
          /\ \E n \in 1 .. Len(tr_comps) : AncestorAt(c, n) = 1
----------------------------------------------------------------------------
(* Repeated properties of a parsed component *)

(* Property lines of a VEVENT: SUMMARY is declared single-valued, COMMENT  *)
(* is declared list-valued, X-PROP is not declared (an x-prop, kept in a   *)
(* list).                                                                  *)
PropertyLines ==
    {<<"SUMMARY", ":", "a">>, <<"SUMMARY", ":", "b">>,
     <<"COMMENT", ":", "a">>, <<"COMMENT", ":", "b">>, <<"X-PROP", ":", "a">>}

(* The texts: a calendar with its required properties and one VEVENT with  *)
(* up to n property lines, the lines ended by LF                           *)
PropertyTexts(n) ==
    {RawText(<<BEGIN_PREFIX \o <<"VCALENDAR">>, <<"PRODID", ":", "p">>, <<"VERSION", ":", "2">>,
               BEGIN_PREFIX \o <<"VEVENT">>>>
             \o body \o <<END_PREFIX \o <<"VEVENT">>, END_PREFIX \o <<"VCALENDAR">>>>, <<LF>>, 1) :
        body \in SeqsUpTo(PropertyLines, n)}

InitParseProperties ==
    /\ p_raw \in PropertyTexts(MaxPropLines)
    /\ p_result = [err |-> "new"]
    /\ p_comp = 0
    /\ p_text = <<>>
    /\ p_status = "new"
    /\ ExpandIdle
    /\ TimelineIdle
    /\ PropertyIdle
    /\ TimespanIdle
    /\ TimeZoneIdle
    /\ TreeIdle
    /\ RRuleLoopIdle
    /\ RepeatIdle
    /\ LocaliseIdle
    /\ MemoIdle
    /\ ObservanceIdle
    /\ LocalZoneIdle

SpecParseProperties == InitParseProperties /\ [][NextParse]_vars

(* The values of the lines NAME:value of the text, in document order *)
DocumentValues(raw, name) ==
    LET ranges == PhysicalRanges(raw, 1, 1)
        lines == [i \in 1 .. Len(ranges) |-> LineAt(raw, ranges[i])]
        IsNamed(l) == Len(l) >= 2 /\ l[1] = name /\ l[2] = ":"
        named == SelectSeq(lines, IsNamed)
    IN  [i \in 1 .. Len(named) |-> DropFirst(named[i], 2)]

(* The values a component holds under a property name, in the order held: *)
(* what set_property stored in the attribute of a declared property (one   *)
(* Property, or a list) or in _extra_properties[name], read from the       *)
(* attribute.  (Component.properties, the dict of all of them, raises      *)
(* MissingRequiredProperty on a VEVENT without DTSTAMP or UID.)            *)
StoredValues(c, name) ==
    LET IsNamed(p) == p.name = <<name>>
        named == SelectSeq(c.properties, IsNamed)
    IN  [i \in 1 .. Len(named) |-> named[i].value]

(* C20: after parsing, a single-valued property (SUMMARY) holds the value  *)
(* of its last occurrence in the component, the earlier duplicates being   *)
(* replaced while parsing continues, and a list-valued property (COMMENT,  *)
(* or an x-prop) holds all of its occurrences in document order.           *)
C20_LastSingleAllListed ==
    (p_status = "parsed") =>
        /\ p_result.err = "ok"
        /\ Len(p_result.comps) = 2
        /\ LET event == p_result.comps[2]
               summaries == DocumentValues(p_raw, "SUMMARY")
           IN  /\ event.name = <<"VEVENT">>
               /\ StoredValues(event, "SUMMARY") =
                      IF summaries = <<>> THEN <<>> ELSE <<summaries[Len(summaries)]>>
               /\ StoredValues(event, "COMMENT") = DocumentValues(p_raw, "COMMENT")
               /\ StoredValues(event, "X-PROP") = DocumentValues(p_raw, "X-PROP")

(* A VEVENT with SUMMARY:a then SUMMARY:b, and COMMENT:b then COMMENT:a,   *)
(* was parsed: it holds the summary b and the comments b, a.               *)
C20_Witness ==
    /\ p_status = "parsed"
    /\ p_result.err = "ok"
    /\ DocumentValues(p_raw, "SUMMARY") = <<<<"a">>, <<"b">>>>
    /\ DocumentValues(p_raw, "COMMENT") = <<<<"b">>, <<"a">>>>
    /\ StoredValues(p_result.comps[2], "SUMMARY") = <<<<"b">>>>
    /\ StoredValues(p_result.comps[2], "COMMENT") = <<<<"b">>, <<"a">>>>
----------------------------------------------------------------------------
(* Property lines whose name or parameter key is not in upper case *)

(* str.upper() on the names and keys the texts use *)
upper(token) ==
    IF token \in {"summary", "Summary"} THEN "SUMMARY"
    ELSE IF token = "language" THEN "LANGUAGE"
    ELSE token

(* SUMMARY lines: the name in upper, lower or mixed case, and no parameter *)
(* or one LANGUAGE parameter whose key is in upper or lower case and whose *)
(* value is in mixed or lower case.                                        *)
CaseLines ==
    {<<name, ":", "a">> : name \in {"SUMMARY", "summary", "Summary"}}
    \cup {<<name, ";", key, "=", value, ":", "a">> :
              name \in {"SUMMARY", "summary", "Summary"},
              key \in {"LANGUAGE", "language"}, value \in {"En", "en"}}

CaseTexts(n) ==
    {RawText(<<BEGIN_PREFIX \o <<"VCALENDAR">>, <<"PRODID", ":", "p">>, <<"VERSION", ":", "2">>,
               BEGIN_PREFIX \o <<"VEVENT">>>>
             \o body \o <<END_PREFIX \o <<"VEVENT">>, END_PREFIX \o <<"VCALENDAR">>>>, <<LF>>, 1) :
        body \in SeqsUpTo(CaseLines, n)}

InitParseCase ==
    /\ p_raw \in CaseTexts(MaxCaseLines)
    /\ p_result = [err |-> "new"]
    /\ p_comp = 0
    /\ p_text = <<>>
    /\ p_status = "new"
    /\ ExpandIdle
    /\ TimelineIdle
    /\ PropertyIdle
    /\ TimespanIdle
    /\ TimeZoneIdle
    /\ TreeIdle
    /\ RRuleLoopIdle
    /\ RepeatIdle
    /\ LocaliseIdle
    /\ MemoIdle
    /\ ObservanceIdle
    /\ LocalZoneIdle

SpecParseCase == InitParseCase /\ [][NextParse]_vars

(* The property lines of the VEVENT of the text, in document order *)
EventLines(raw) ==
    LET ranges == PhysicalRanges(raw, 1, 1)
        lines == [i \in 1 .. Len(ranges) |-> LineAt(raw, ranges[i])]
    IN  SubSeq(lines, 5, Len(lines) - 2)

(* C21: a property line whose name is written in lower or mixed case is   *)
(* normalised to upper case and dispatched to the typed field of the      *)
(* upper-case name (SUMMARY, single-valued: the event holds one SUMMARY,  *)
(* the last of the lines); its parameter is found under the key whatever  *)
(* the case the key was written in, and the parameter value keeps its     *)
(* case.                                                                   *)
C21_NamesAndKeysCaseInsensitive ==
    (p_status = "parsed") =>
        /\ p_result.err = "ok"
        /\ LET event == p_result.comps[2]
               lines == EventLines(p_raw)
               last == lines[Len(lines)]
           IN  lines # <<>> =>
                   /\ Len(event.properties) = 1
                   /\ event.properties[1].name = <<upper(last[1])>>
                   /\ event.properties[1].typed
                   /\ Len(last) > 3 =>
                          LET got == get_property_parameter(event.properties[1], <<upper(last[3])>>)
                          IN  ~got.isnone /\ got.value = <<last[5]>>
----------------------------------------------------------------------------
(* Order of the occurrences of one expansion *)

(* C22: within one call of expand_component_in_range the occurrences are   *)
(* yielded in ascending order of start, the RDATE-derived and the          *)
(* RRULE-derived ones alike.                                               *)
C22_AscendingStarts ==
    e_status = "ok" =>
        \A i, j \in 1 .. Len(e_out) : i < j => e_out[i].begin <= e_out[j].begin
----------------------------------------------------------------------------
(* The loop of _yield_rrule_list over RRule.sequence_iterator, one         *)
(* instance of the dateutil sequence at a time.  The component's own start *)
(* is the one excluded time, as in VEvent.expand_component_in_range.       *)

(* `if dt >= max_datetime: break` instead of `if dt > max_datetime: break` *)
loop_breaks_AtMax(dt, max_datetime) == dt >= max_datetime

(* sequence_iterator: `if dt > max_datetime: break` *)
loop_breaks(dt, max_datetime) == dt > max_datetime

(* dateutil's rrule has no further instance: COUNT instances were          *)
(* produced, or the next one is after UNTIL                                *)
rrule_exhausted(rr, dt, k) ==
    \/ (rr.count # NoCount /\ k > rr.count)
    \/ (rr.until # NoTime /\ dt > rr.until)

InitRRuleLoop ==
    /\ it_rrule \in RRules
    /\ it_start \in 0 .. MaxStart
    /\ it_dur \in 1 .. MaxDur
    /\ it_range \in Ranges
    /\ it_dt = 0
    /\ it_k = 0
    /\ it_out = <<>>
    /\ it_status = "new"
    /\ ExpandIdle
    /\ TimelineIdle
    /\ ParseIdle
    /\ PropertyIdle
    /\ TimespanIdle
    /\ TimeZoneIdle
    /\ TreeIdle
    /\ RepeatIdle
    /\ LocaliseIdle
    /\ MemoIdle
    /\ ObservanceIdle
    /\ LocalZoneIdle

(* _yield_rrule_list returns at once without an RRULE *)
NoRRuleReturn ==
    /\ it_status = "new"
    /\ ~it_rrule.present
    /\ it_status' = "exhausted"
    /\ UNCHANGED <<it_rrule, it_start, it_dur, it_range, it_dt, it_k, it_out>>
    /\ UNCHANGED <<e_vars, tl_vars, p_vars, pp_vars, ts_vars, tz_vars, tr_vars, rp_vars, lo_vars, mc_vars, ob_vars, env_vars>>

(* The first next() on sequence_iterator: its checks fail *)
StartRaises ==
    /\ it_status = "new"
    /\ it_rrule.present
    /\ it_start >= it_range.end
    /\ it_status' = "ValueError"
    /\ UNCHANGED <<it_rrule, it_start, it_dur, it_range, it_dt, it_k, it_out>>
    /\ UNCHANGED <<e_vars, tl_vars, p_vars, pp_vars, ts_vars, tz_vars, tr_vars, rp_vars, lo_vars, mc_vars, ob_vars, env_vars>>

(* The first next() on sequence_iterator: the dateutil rrule is built from *)
(* dtstart = starting_datetime                                             *)
StartIteration ==
    /\ it_status = "new"
    /\ it_rrule.present
    /\ it_start < it_range.end
    /\ it_dt' = it_start
    /\ it_k' = 1
    /\ it_status' = "running"
    /\ UNCHANGED <<it_rrule, it_start, it_dur, it_range, it_out>>
    /\ UNCHANGED <<e_vars, tl_vars, p_vars, pp_vars, ts_vars, tz_vars, tr_vars, rp_vars, lo_vars, mc_vars, ob_vars, env_vars>>

(* dateutil's sequence has ended *)
Exhausted ==
    /\ it_status = "running"
    /\ rrule_exhausted(it_rrule, it_dt, it_k)
    /\ it_status' = "exhausted"
    /\ UNCHANGED <<it_rrule, it_start, it_dur, it_range, it_dt, it_k, it_out>>
    /\ UNCHANGED <<e_vars, tl_vars, p_vars, pp_vars, ts_vars, tz_vars, tr_vars, rp_vars, lo_vars, mc_vars, ob_vars, env_vars>>

(* dateutil produced dt and sequence_iterator breaks on it *)
Break ==
    /\ it_status = "running"
    /\ ~rrule_exhausted(it_rrule, it_dt, it_k)
    /\ loop_breaks(it_dt, it_range.end)
    /\ it_status' = "break"
    /\ UNCHANGED <<it_rrule, it_start, it_dur, it_range, it_dt, it_k, it_out>>
    /\ UNCHANGED <<e_vars, tl_vars, p_vars, pp_vars, ts_vars, tz_vars, tr_vars, rp_vars, lo_vars, mc_vars, ob_vars, env_vars>>

(* dateutil produced dt, sequence_iterator yields it, and the body of the  *)
(* loop of _yield_rrule_list yields it or skips it                         *)
Step ==
    /\ it_status = "running"
    /\ ~rrule_exhausted(it_rrule, it_dt, it_k)
    /\ ~loop_breaks(it_dt, it_range.end)
    /\ it_out' = IF /\ intersects(it_range, Timespan(it_dt, it_dt + it_dur))
                    /\ it_dt # it_start
                 THEN Append(it_out, it_dt)
                 ELSE it_out
    /\ it_dt' = it_dt + it_rrule.interval
    /\ it_k' = it_k + 1
    /\ UNCHANGED <<it_rrule, it_start, it_dur, it_range, it_status>>
    /\ UNCHANGED <<e_vars, tl_vars, p_vars, pp_vars, ts_vars, tz_vars, tr_vars, rp_vars, lo_vars, mc_vars, ob_vars, env_vars>>

NextRRuleLoop ==
    NoRRuleReturn \/ StartRaises \/ StartIteration \/ Exhausted \/ Break \/ Step

SpecRRuleLoop == InitRRuleLoop /\ [][NextRRuleLoop]_vars

(* The loop runs in one thread and nothing else is scheduled: a step that  *)
(* can be taken is taken.                                                  *)
SpecRRuleLoopFair == SpecRRuleLoop /\ WF_vars(NextRRuleLoop)

IsUnbounded(rr) == rr.present /\ rr.count = NoCount /\ rr.until = NoTime

(* C23: for an RRULE with neither UNTIL nor COUNT, the expansion over a    *)
(* finite range terminates: the loop ends, by the break on the first       *)
(* instance after the range end (every instance before it was at or before *)
(* the range end), or by the ValueError of a start at or after the range   *)
(* end; no instance further than that one is produced.                     *)
C23_UnboundedRRuleTerminates ==
    /\ [](IsUnbounded(it_rrule) =>
            /\ it_status # "exhausted"
            /\ it_status = "running" => it_dt <= it_range.end + it_rrule.interval
            /\ it_status = "break" =>
                   /\ it_dt > it_range.end
                   /\ it_dt - it_rrule.interval <= it_range.end)
    /\ ((IsUnbounded(it_rrule) /\ it_status = "new")
            ~> (it_status \in {"break", "ValueError"}))

(* The loop over an unbounded RRULE ended by the break after it yielded *)
C23_Witness ==
    /\ IsUnbounded(it_rrule)
    /\ it_status = "break"
    /\ it_out # <<>>
----------------------------------------------------------------------------
(* Two expansions of the same component over the same range *)

(* The components expanded twice: as ExpandEvents, with at most one RDATE  *)
(* value and at most one EXDATE value.                                     *)
RepeatEvents(starts) ==
    UNION {{VEvent("A", s, eo, rr, rd, ex, NoTime) :
                eo \in EndOptions(s), rr \in RRules,
                rd \in SeqsUpTo(Times, 1), ex \in SeqsUpTo(Times, 1)} :
           s \in starts}

InitRepeat ==
    /\ rp_comp \in RepeatEvents(0 .. MaxStart)
    /\ rp_range \in Ranges
    /\ rp_first = NoGenerator
    /\ rp_second = NoGenerator
    /\ rp_lists = <<>>
    /\ ExpandIdle
    /\ TimelineIdle
    /\ ParseIdle
    /\ PropertyIdle
    /\ TimespanIdle
    /\ TimeZoneIdle
    /\ TreeIdle
    /\ RRuleLoopIdle
    /\ LocaliseIdle
    /\ MemoIdle
    /\ ObservanceIdle
    /\ LocalZoneIdle

IsOpen(frame) == frame.pc \in {"created", "yielded", "iterating"}

(* known = []; first = component.expand_component_in_range(return_range, known) *)
ExpandOnce ==
    /\ rp_first.pc = "none"
    /\ rp_lists' = <<<<>>>>
    /\ rp_first' = NewGenerator(1, TRUE)
    /\ UNCHANGED <<rp_comp, rp_range, rp_second>>
    /\ UNCHANGED <<e_vars, tl_vars, p_vars, pp_vars, ts_vars, tz_vars, tr_vars, it_vars, lo_vars, mc_vars, ob_vars, env_vars>>

(* second = component.expand_component_in_range(return_range, []): the     *)
(* second call, with a new empty list, made at any time after the first    *)
ExpandAgain ==
    /\ rp_first.pc # "none"
    /\ rp_second.pc = "none"
    /\ rp_lists' = Append(rp_lists, <<>>)
    /\ rp_second' = NewGenerator(2, TRUE)
    /\ UNCHANGED <<rp_comp, rp_range, rp_first>>
    /\ UNCHANGED <<e_vars, tl_vars, p_vars, pp_vars, ts_vars, tz_vars, tr_vars, it_vars, lo_vars, mc_vars, ob_vars, env_vars>>

(* second = component.expand_component_in_range(return_range, known): the  *)
(* second call, with the list object the first call was given              *)
ExpandAgainSameList ==
    /\ rp_first.pc # "none"
    /\ rp_second.pc = "none"
    /\ rp_second' = NewGenerator(1, rp_lists[1] = <<>>)
    /\ UNCHANGED <<rp_comp, rp_range, rp_first, rp_lists>>
    /\ UNCHANGED <<e_vars, tl_vars, p_vars, pp_vars, ts_vars, tz_vars, tr_vars, it_vars, lo_vars, mc_vars, ob_vars, env_vars>>

(* next(first) *)
NextFirst ==
    /\ IsOpen(rp_first)
    /\ LET r == expand_component_in_range_next(rp_comp, 1, rp_range, rp_first, rp_lists[rp_first.list])
       IN  /\ rp_first' = r.frame
           /\ rp_lists' = [rp_lists EXCEPT ![rp_first.list] = r.list]
    /\ UNCHANGED <<rp_comp, rp_range, rp_second>>
    /\ UNCHANGED <<e_vars, tl_vars, p_vars, pp_vars, ts_vars, tz_vars, tr_vars, it_vars, lo_vars, mc_vars, ob_vars, env_vars>>

(* next(second) *)
NextSecond ==
    /\ IsOpen(rp_second)
    /\ LET r == expand_component_in_range_next(rp_comp, 1, rp_range, rp_second, rp_lists[rp_second.list])
       IN  /\ rp_second' = r.frame
           /\ rp_lists' = [rp_lists EXCEPT ![rp_second.list] = r.list]
    /\ UNCHANGED <<rp_comp, rp_range, rp_first>>
    /\ UNCHANGED <<e_vars, tl_vars, p_vars, pp_vars, ts_vars, tz_vars, tr_vars, it_vars, lo_vars, mc_vars, ob_vars, env_vars>>

NextRepeat == ExpandOnce \/ ExpandAgain \/ ExpandAgainSameList \/ NextFirst \/ NextSecond

SpecRepeat == InitRepeat /\ [][NextRepeat]_vars

CountIn(s, x) == Cardinality({i \in 1 .. Len(s) : s[i] = x})

SameMultiset(a, b) ==
    /\ Len(a) = Len(b)
    /\ \A x \in SetOfSeq(a) \cup SetOfSeq(b) : CountIn(a, x) = CountIn(b, x)

(* C24: two calls of expand_component_in_range on the same component with  *)
(* the same range yield the same multiset of timespans (and end the same   *)
(* way) once both generators are exhausted: whatever a run leaves behind,  *)
(* in the component or in the list it was given, changes nothing for the   *)
(* other run.  This holds whether the second call is given a new empty     *)
(* list or the list object of the first call, and whether the two          *)
(* generators are consumed one after the other or in turns.                *)
C24_SecondRunSame ==
    (rp_first.pc = "closed" /\ rp_second.pc = "closed") =>
        /\ rp_second.err = rp_first.err
        /\ SameMultiset(rp_second.out, rp_first.out)

(* Both calls were made with an empty list, the second with a new one, and *)
(* both runs yielded recurring occurrences next to the component itself;   *)
(* the first run left the start of the component in its list               *)
C24_Witness ==
    /\ rp_first.pc = "closed"
    /\ rp_second.pc = "closed"
    /\ rp_second.list = 2
    /\ rp_first.empty /\ rp_second.empty
    /\ rp_first.err = "ok"
    /\ Len(rp_first.out) >= 3
    /\ rp_lists[1] # <<>>
    /\ rp_second.out = rp_first.out
----------------------------------------------------------------------------
(* convert_naive_datetime_to_aware applied to its own result *)

(* The datetimes passed in: naive ones, and ones that already have a       *)
(* tzinfo of one of the offsets of the observances                         *)
DateTimes ==
    {DateTime(w, FALSE, 0) : w \in 0 .. TzHorizon}
    \cup {DateTime(w, TRUE, o) : w \in 0 .. TzHorizon, o \in {1, 2}}

InitLocalise ==
    /\ lo_standardc \in StandardObservances
    /\ lo_daylightc \in DaylightObservances
    /\ lo_standardc.dtstart # lo_daylightc.dtstart
    /\ lo_dt \in DateTimes
    /\ lo_first = [err |-> "new", dt |-> lo_dt, package |-> "none"]
    /\ lo_second = [err |-> "new", dt |-> lo_dt]
    /\ lo_status = "new"
    /\ ExpandIdle
    /\ TimelineIdle
    /\ ParseIdle
    /\ PropertyIdle
    /\ TimespanIdle
    /\ TimeZoneIdle
    /\ TreeIdle
    /\ RRuleLoopIdle
    /\ RepeatIdle
    /\ MemoIdle
    /\ ObservanceIdle
    /\ local_timezone \in LocalZones

(* first = v_timezone.convert_naive_datetime_to_aware(dt), ical_reader *)
Localise ==
    /\ lo_status = "new"
    /\ LET r == convert_naive_datetime_to_aware_dt(lo_standardc, lo_daylightc, lo_dt, local_timezone)
       IN  lo_first' = [err |-> r.err, dt |-> r.dt, package |-> "ical_reader"]
    /\ lo_status' = "once"
    /\ UNCHANGED <<lo_standardc, lo_daylightc, lo_dt, lo_second>>
    /\ UNCHANGED <<e_vars, tl_vars, p_vars, pp_vars, ts_vars, tz_vars, tr_vars, it_vars, rp_vars, mc_vars, ob_vars, env_vars>>

(* first = v_timezone.convert_naive_datetime_to_aware(dt), ical_library *)
LocaliseLibrary ==
    /\ lo_status = "new"
    /\ \E o \in {lo_standardc.tzoffsetto, lo_daylightc.tzoffsetto} :
           LET r == library_convert_naive_datetime_to_aware(LibraryPeriod(lo_standardc), LibraryPeriod(lo_daylightc), lo_dt, local_timezone, o)
           IN  lo_first' = [err |-> r.err, dt |-> r.dt, package |-> "ical_library"]
    /\ lo_status' = "once"
    /\ UNCHANGED <<lo_standardc, lo_daylightc, lo_dt, lo_second>>
    /\ UNCHANGED <<e_vars, tl_vars, p_vars, pp_vars, ts_vars, tz_vars, tr_vars, it_vars, rp_vars, mc_vars, ob_vars, env_vars>>

(* second = v_timezone.convert_naive_datetime_to_aware(first), ical_reader: *)
(* the second call of convert(convert(dt)).  When the first call raised,   *)
(* the expression raises the same exception and no second call is made.    *)
LocaliseAgain ==
    /\ lo_status = "once"
    /\ lo_first.package = "ical_reader"
    /\ lo_second' = IF lo_first.err # "ok"
                    THEN [err |-> lo_first.err, dt |-> lo_first.dt]
                    ELSE convert_naive_datetime_to_aware_dt(lo_standardc, lo_daylightc, lo_first.dt, local_timezone)
    /\ lo_status' = "twice"
    /\ UNCHANGED <<lo_standardc, lo_daylightc, lo_dt, lo_first>>
    /\ UNCHANGED <<e_vars, tl_vars, p_vars, pp_vars, ts_vars, tz_vars, tr_vars, it_vars, rp_vars, mc_vars, ob_vars, env_vars>>

(* second = v_timezone.convert_naive_datetime_to_aware(first), ical_library *)
LocaliseLibraryAgain ==
    /\ lo_status = "once"
    /\ lo_first.package = "ical_library"
    /\ \E o \in {lo_standardc.tzoffsetto, lo_daylightc.tzoffsetto} :
           lo_second' = IF lo_first.err # "ok"
                        THEN [err |-> lo_first.err, dt |-> lo_first.dt]
                        ELSE library_convert_naive_datetime_to_aware(LibraryPeriod(lo_standardc), LibraryPeriod(lo_daylightc), lo_first.dt, local_timezone, o)
    /\ lo_status' = "twice"
    /\ UNCHANGED <<lo_standardc, lo_daylightc, lo_dt, lo_first>>
    /\ UNCHANGED <<e_vars, tl_vars, p_vars, pp_vars, ts_vars, tz_vars, tr_vars, it_vars, rp_vars, mc_vars, ob_vars, env_vars>>

NextLocalise == Localise \/ LocaliseLibrary \/ LocaliseAgain \/ LocaliseLibraryAgain

SpecLocalise == InitLocalise /\ [][NextLocalise]_vars

(* C25: localising an already-localised datetime with the same VTIMEZONE   *)
(* returns it unchanged: convert(convert(dt)) ends as convert(dt) ends,     *)
(* with the same datetime or the same exception, for every dt, naive or    *)
(* aware, in both packages.                                                *)
C25_LocaliseIdempotent ==
    lo_status = "twice" =>
        /\ lo_second.err = lo_first.err
        /\ lo_second.dt = lo_first.dt

(* A naive datetime was made aware by the first call and the second call   *)
(* returned that aware datetime                                            *)
C25_Witness ==
    /\ lo_status = "twice"
    /\ lo_first.package = "ical_reader"
    /\ ~lo_dt.aware
    /\ lo_first.err = "ok"
    /\ lo_first.dt.aware
    /\ lo_second.err = "ok"
    /\ lo_second.dt = lo_first.dt
----------------------------------------------------------------------------
(* What an expansion does to its inputs *)

(* C26: running expand_component_in_range does not modify its inputs: the  *)
(* caller's starts_to_exclude list, the component and the range are the    *)
(* same after the call as before it.                                       *)
C26_InputsNotModified ==
    [][e_ste' = e_ste /\ e_comp' = e_comp /\ e_range' = e_range]_vars
----------------------------------------------------------------------------
(* help_modules/lru_cache.py: the properties under instance_lru_cache, and *)
(* the transition table VTimeZone keeps in __storage_of_results            *)

(* A call of a function under functools.lru_cache whose cache holds the    *)
(* keys `cache`: a hit returns the stored result, a miss runs the function *)
(* and stores the key                                                      *)
lru_cache_call(cache, key) == [hit |-> key \in cache, cache |-> cache \cup {key}]

(* wrapped_func of instance_lru_cache: every call defines cached_method    *)
(* anew, under a new lru_cache, calls it once and drops it                 *)
wrapped_func(key) ==
    LET cached_method == {}
    IN  lru_cache_call(cached_method, key)

(* The properties of AbstractComponentWithRecurringProperties under        *)
(* @property @instance_lru_cache()                                         *)
MemoProperties == {"start", "end", "computed_duration", "max_recurring_timespan"}

(* The function under the decorator *)
MemoFunc(name, c) ==
    IF name = "start" THEN start(c)
    ELSE IF name = "end" THEN end(c)
    ELSE IF name = "computed_duration" THEN computed_duration(c)
    ELSE max_recurring_timespan(c)

(* How often each function ran: none, one run of one function, sums *)
NoRuns == [name \in MemoProperties |-> 0]

OneRun(name) == [n \in MemoProperties |-> IF n = name THEN 1 ELSE 0]

AddRuns(a, b) == [n \in MemoProperties |-> a[n] + b[n]]

(* A read of a decorated property goes through wrapped_func: on a miss the *)
(* function runs, and so do the functions of the decorated properties it   *)
(* reads itself (body); on a hit nothing runs                              *)
ReadThroughCache(name, body) ==
    IF wrapped_func(<<>>).hit THEN NoRuns ELSE AddRuns(OneRun(name), body)

(* self.start: the function reads no decorated property *)
read_start(c) == ReadThroughCache("start", NoRuns)

(* self.end: with an ending nothing else is read; without one self.start   *)
(* is read in the condition and, when start and get_duration() are truthy, *)
(* once more in the sum                                                    *)
read_end(c) ==
    ReadThroughCache("end",
        IF c.dtend # NoTime THEN NoRuns
        ELSE IF start(c) # NoTime /\ Truthy(get_duration(c))
        THEN AddRuns(read_start(c), read_start(c))
        ELSE read_start(c))

(* self.computed_duration: with a truthy get_duration() nothing else is    *)
(* read; otherwise self.end, then self.start when end is truthy, and both  *)
(* once more in the difference                                             *)
read_computed_duration(c) ==
    ReadThroughCache("computed_duration",
        IF Truthy(get_duration(c)) THEN NoRuns
        ELSE IF end(c) = NoTime THEN read_end(c)
        ELSE IF start(c) = NoTime THEN AddRuns(read_end(c), read_start(c))
        ELSE AddRuns(AddRuns(read_end(c), read_start(c)), AddRuns(read_end(c), read_start(c))))

(* self.timespan (not decorated): start, then end, then start twice when   *)
(* end is None, then start and end for the TimespanWithParent returned     *)
read_timespan(c) ==
    IF start(c) = NoTime THEN read_start(c)
    ELSE AddRuns(AddRuns(read_start(c), read_end(c)),
                 AddRuns(IF end(c) = NoTime THEN AddRuns(read_start(c), read_start(c)) ELSE NoRuns,
                         AddRuns(read_start(c), read_end(c))))

(* n reads of self.computed_duration *)
RECURSIVE read_computed_duration_times(_, _)
read_computed_duration_times(c, n) ==
    IF n = 0 THEN NoRuns
    ELSE AddRuns(read_computed_duration(c), read_computed_duration_times(c, n - 1))

(* self.max_recurring_timespan: self.start, then self.computed_duration    *)
(* when start is truthy; then self.timespan when there is neither RRULE    *)
(* nor RDATE, else computed_duration for every RDATE, start and            *)
(* computed_duration for the RRULE, and start for the Timespan returned    *)
read_max_recurring_timespan(c) ==
    ReadThroughCache("max_recurring_timespan",
        IF start(c) = NoTime THEN read_start(c)
        ELSE IF ~Truthy(computed_duration(c)) THEN AddRuns(read_start(c), read_computed_duration(c))
        ELSE AddRuns(AddRuns(read_start(c), read_computed_duration(c)),
                 IF ~c.rrule.present /\ c.rdate = <<>> THEN read_timespan(c)
                 ELSE AddRuns(read_computed_duration_times(c, Len(c.rdate)),
                          AddRuns(IF c.rrule.present
                                  THEN AddRuns(read_start(c), read_computed_duration(c))
                                  ELSE NoRuns,
                                  read_start(c)))))

(* The functions a read of the property runs *)
MemoRuns(name, c) ==
    IF name = "start" THEN read_start(c)
    ELSE IF name = "end" THEN read_end(c)
    ELSE IF name = "computed_duration" THEN read_computed_duration(c)
    ELSE read_max_recurring_timespan(c)

MemoEvents ==
    {VEvent("A", 0, eo, rr, <<>>, <<>>, NoTime) :
        eo \in EndOptions(0),
        rr \in {NoRRule, [present |-> TRUE, interval |-> 1, count |-> NoCount, until |-> NoTime]}}

(* The VTimeZone of the calls, and the horizons asked for *)
MemoStandard == [dtstart |-> 0, tzoffsetfrom |-> 2, tzoffsetto |-> 1, rrule |-> YearlyRRule, rdate |-> <<>>]

MemoDaylight == [dtstart |-> 1, tzoffsetfrom |-> 1, tzoffsetto |-> 2, rrule |-> YearlyRRule, rdate |-> <<>>]

Horizons == {TzHorizon - 1, TzHorizon}

InitMemo ==
    /\ mc_comp \in MemoEvents
    /\ mc_runs = [name \in MemoProperties |-> 0]
    /\ mc_reads = 0
    /\ mc_last = [name |-> "new"]
    /\ mc_storage = {}
    /\ mc_tz_runs = [h \in Horizons |-> 0]
    /\ ExpandIdle
    /\ TimelineIdle
    /\ ParseIdle
    /\ PropertyIdle
    /\ TimespanIdle
    /\ TimeZoneIdle
    /\ TreeIdle
    /\ RRuleLoopIdle
    /\ RepeatIdle
    /\ LocaliseIdle
    /\ ObservanceIdle
    /\ local_timezone \in LocalZones

(* component.start, .end, .computed_duration or .max_recurring_timespan:   *)
(* the functions that ran, the read property's and those it reads, and the *)
(* value returned                                                          *)
ReadProperty ==
    /\ mc_reads < MaxReads
    /\ \E name \in MemoProperties :
           /\ mc_runs' = AddRuns(mc_runs, MemoRuns(name, mc_comp))
           /\ mc_last' = [name |-> name, value |-> MemoFunc(name, mc_comp)]
    /\ mc_reads' = mc_reads + 1
    /\ UNCHANGED <<mc_comp, mc_storage, mc_tz_runs>>
    /\ UNCHANGED <<e_vars, tl_vars, p_vars, pp_vars, ts_vars, tz_vars, tr_vars, it_vars, rp_vars, lo_vars, ob_vars, env_vars>>

(* v_timezone.get_ordered_timezone_overview(max_datetime) *)
GetOrderedTimezoneOverview ==
    /\ mc_reads < MaxReads
    /\ \E max_datetime \in Horizons :
           LET stored == {item \in mc_storage : item.key = max_datetime}
               sorted_list == library_get_ordered_timezone_overview(MemoStandard, MemoDaylight, max_datetime, local_timezone).vals
           IN  IF stored # {}
               THEN /\ mc_last' = [name |-> "get_ordered_timezone_overview",
                                   value |-> (CHOOSE item \in stored : TRUE).value]
                    /\ UNCHANGED <<mc_storage, mc_tz_runs>>
               ELSE /\ mc_storage' = mc_storage \cup {[key |-> max_datetime, value |-> sorted_list]}
                    /\ mc_tz_runs' = [mc_tz_runs EXCEPT ![max_datetime] = @ + 1]
                    /\ mc_last' = [name |-> "get_ordered_timezone_overview", value |-> sorted_list]
    /\ mc_reads' = mc_reads + 1
    /\ UNCHANGED <<mc_comp, mc_runs>>
    /\ UNCHANGED <<e_vars, tl_vars, p_vars, pp_vars, ts_vars, tz_vars, tr_vars, it_vars, rp_vars, lo_vars, ob_vars, env_vars>>

NextMemo == ReadProperty \/ GetOrderedTimezoneOverview

SpecMemo == InitMemo /\ [][NextMemo]_vars

(* C27: within a component a memoised property (start, end,                *)
(* computed_duration, max_recurring_timespan) is computed at most once,    *)
(* and so is the transition table of a VTIMEZONE for a given horizon:      *)
(* repeated reads do not run the underlying computation again.             *)
C27_ComputedAtMostOnce ==
    /\ \A name \in DOMAIN mc_runs : mc_runs[name] <= 1
    /\ \A h \in DOMAIN mc_tz_runs : mc_tz_runs[h] <= 1
----------------------------------------------------------------------------
(* The order of the children of the calendar *)

(* The pairs (timespan, component) of a list of timespans with parents *)
Occurrences(cs, list) ==
    [i \in 1 .. Len(list) |->
        [begin |-> list[i].begin, end |-> list[i].end,
         component |-> cs[list[i].parent.orig], recurring |-> list[i].parent.recurring]]

(* The calendar holds a base recurring component and a RECURRENCE-ID       *)
(* override of the same UID, in either order                               *)
C28_IsBaseWithOverride ==
    /\ tl_setter = "none"
    /\ Len(children) = 2
    /\ children[1].uid = children[2].uid
    /\ \E b, o \in 1 .. 2 :
          /\ b # o
          /\ children[b].rrule.present /\ children[b].recurrence_id = NoTime
          /\ children[o].recurrence_id # NoTime

(* C28: the multiset of occurrences that Timeline.iterate yields does not  *)
(* depend on the order in which a base recurring component and its         *)
(* RECURRENCE-ID override of the same UID appear among the children: the   *)
(* calendar with the two children exchanged gives the same occurrences.    *)
C28_ChildrenOrderIrrelevant ==
    (C28_IsBaseWithOverride /\ tl_status = "done") =>
        LET exchanged == <<children[2], children[1]>>
            r == explode_recurring_components(exchanged, tl_range)
        IN  /\ r.err = "ok"
            /\ SameMultiset(Occurrences(children, yielded), Occurrences(exchanged, r.list))
----------------------------------------------------------------------------
(* A recurring component that starts at or after the end of the range *)

(* C29: expand_component_in_range on a component (with a duration) with   *)
(* an RRULE whose DTSTART is at or after the end of the range completes    *)
(* without raising an error and yields no recurrence occurrence that       *)
(* starts after the range end.                                             *)
C29_StartAtOrAfterRangeEnd ==
    ( /\ e_status \notin {"new", "idle"}
      /\ e_comp.rrule.present
      /\ Truthy(computed_duration(e_comp))
      /\ e_comp.dtstart >= e_range.end ) =>
        /\ e_status = "ok"
        /\ \A i \in 1 .. Len(e_out) :
              e_out[i].parent.recurring => e_out[i].begin <= e_range.end
----------------------------------------------------------------------------
(* The transition table of a VTIMEZONE whose observances have an RRULE, an *)
(* RDATE, both or neither                                                  *)

Observances(tzoffsetfrom, tzoffsetto) ==
    [dtstart : 0 .. MaxTzStart, tzoffsetfrom : {tzoffsetfrom}, tzoffsetto : {tzoffsetto},
     rrule : {NoRRule, YearlyRRule},
     rdate : {<<>>} \cup {<<t>> : t \in 0 .. MaxTzStart + 1}]

InitObservance ==
    /\ ob_standardc \in Observances(2, 1)
    /\ ob_daylightc \in Observances(1, 2)
    /\ ob_table = <<>>
    /\ ob_status = "new"
    /\ ExpandIdle
    /\ TimelineIdle
    /\ ParseIdle
    /\ PropertyIdle
    /\ TimespanIdle
    /\ TimeZoneIdle
    /\ TreeIdle
    /\ RRuleLoopIdle
    /\ RepeatIdle
    /\ LocaliseIdle
    /\ MemoIdle
    /\ local_timezone \in LocalZones

(* v_timezone.get_ordered_timezone_overview(DateTime(2100, 1, 1)) *)
GetTimezoneOverview ==
    /\ ob_status = "new"
    /\ LET r == library_get_ordered_timezone_overview(ob_standardc, ob_daylightc, TzHorizon, local_timezone)
       IN  /\ ob_table' = r.vals
           /\ ob_status' = IF r.err = "ok" THEN "done" ELSE r.err
    /\ UNCHANGED <<ob_standardc, ob_daylightc>>
    /\ UNCHANGED <<e_vars, tl_vars, p_vars, pp_vars, ts_vars, tz_vars, tr_vars, it_vars, rp_vars, lo_vars, mc_vars, env_vars>>

NextObservance == GetTimezoneOverview

SpecObservance == InitObservance /\ [][NextObservance]_vars

OnlyDtstart(period) == ~period.rrule.present /\ period.rdate = <<>>

(* C30: a STANDARD or DAYLIGHT observance that has only a DTSTART (no      *)
(* RRULE, no RDATE) contributes a transition at its DTSTART to the ordered *)
(* transition table, so the table of a VTIMEZONE made only of such         *)
(* observances is not empty.                                               *)
C30_DtstartOnlyObservanceInTable ==
    ob_status \notin {"new", "idle"} =>
        /\ ob_status = "done"
        /\ \A period \in {ob_standardc, ob_daylightc} :
              OnlyDtstart(period) =>
                  \E i \in 1 .. Len(ob_table) :
                      ob_table[i].at = period.dtstart /\ ob_table[i].period = period
        /\ (OnlyDtstart(ob_standardc) /\ OnlyDtstart(ob_daylightc)) => ob_table # <<>>

============================================================================
